---- MODULE Spec2Model ----
(***************************************************************************)
(* State-machine model of the osg-repo-scripts "distrepos" publisher:      *)
(*   - Distrepos._update_release_repos (three-root rotation with rollback) *)
(*   - acquire_lock / release_lock (flock-based run lock)                   *)
(*   - main / Distrepos.run / Distrepos.run_one_tag (the batch driver)      *)
(*   - distrepos.__main__.main (the batch driver of the package)            *)
(*   - mirror_run: test_single_mirror, update_mirrors_for_tag              *)
(*   - Distrepos._update_pkglist_files, _pull_condor_repos,                 *)
(*     _create_compat_symlink, _get_latest_dir                              *)
(*   - distrepos.__main__.create_mirrorlists                                *)
(*   - rsync_with_link, rsync_exists                                        *)
(*   - mirror_run.get_mirror_info_for_arch, parse_config                    *)
(*   - symlink_utils: link_static_data, link_latest_release                 *)
(***************************************************************************)
EXTENDS Integers, Sequences, FiniteSets, TLC

\* ---------------------------------------------------------------- bounds
NTags == 2
MaxGen == 4
MaxNest == 2
NLockProcs == 3
MaxInodes == 3
NHosts == 2
MaxExtras == 2
MaxAgeHours == 26
MaxFiles == 2
NCondorArches == 2
NCondorRepos == 2
NDirs == 4
MaxParts == 3
MaxRuns == 3
NNames == 2
MaxRelNum == 2
MaxRpms == 2

Tags == 1..NTags

\* Sequences over S of length at most n.
SeqsUpTo(S, n) == UNION {[1..k -> S] : k \in 0..n}
Rotators == {1, 2}
LockProcs == 1..NLockProcs

\* ------------------------------------------------------ program constants
ERR_CONFIG == 3
ERR_RSYNC == 4
ERR_FAILURES == 5
ERR_EMPTY == 6
FRESH_HOURS == 24
RSYNC_OK == 0
RSYNC_NOT_FOUND == 23

VARIABLES
    \* the on-disk trees, one of each per tag (dest_root/working_root/previous_root joined with tag.dest)
    working, released, previous,
    gen,        \* label of the next tree content that a transfer produces
    \* one invocation of _update_release_repos per rotator
    rpc,        \* position inside _update_release_repos
    rtag,       \* the tag whose three paths the invocation was given
    rret,       \* how the invocation ended: "none", "ok", "TagFailure", "OSError"
    rpre,       \* the three trees as they were when the invocation started
    rlog,       \* what the invocation did: [moved, final, rollback]; final is "ok", "clean"
                \* (failed, released path as before) or "littered" (failed, something left there)
    \* the lock file and the processes using acquire_lock / release_lock
    lock,
    \* the batch driver (main, Distrepos.run, Distrepos.run_one_tag)
    mpc, probe, tagidx, stage, successful, failed, uncaught, exitcode, failStage, disk0,
    \* one call of test_single_mirror: the responses of the host, the offset of
    \* the local clock from UTC in hours, and what the call came to
    chkResp, tz, chkResult,
    \* one call of update_mirrors_for_tag
    mirExtras,  \* options.mirror_hosts
    mirpc,      \* position inside update_mirrors_for_tag
    mirArch,    \* index of the architecture of the outer loop
    mirHost,    \* index of the host of the inner loop
    good,       \* good_mirrors
    mirAcc,     \* per architecture, what test_single_mirror returned for each host checked
    mirRet,     \* "none", "ok" for (True, ""), "fail" for (False, msg), or the exception that escaped
    mirWork, mirRel, mirPrev,   \* the mirror-list directories of the tag
    mirDisk0,   \* mirRel and mirPrev as they were when the call started
    mirRotations,   \* number of calls of update_release_repos
    \* one call of _update_pkglist_files
    pkTree,     \* the files under the Packages directories of the working tree
    pkpc,       \* position inside _update_pkglist_files
    pkArch,     \* index of the architecture of the loop
    walk, wi,   \* the files os.walk yields, and the next one
    plFiles,    \* the pkglist and pkglist.new files
    plOld,      \* the pkglist files as they were when the call started
    plLink,     \* per list file name of the working tree: it is a hardlink of
                \* the file of the same name in the released tree
    relFiles,   \* the pkglist files of the released tree
    \* one call of _pull_condor_repos
    cArches, cRepos,    \* len(tag.arches), len(tag.condor_repos)
    cpc,        \* position inside _pull_condor_repos
    cIdx,       \* idx of the loop over the architectures, from 0
    cRepo,      \* index of the mapping of the inner loop, from 1
    cLog,       \* the calls of rsync_with_link so far, each with its exit status
    cRet,       \* "none", "ok" or "TagFailure"
    \* source/SRPMS inside the tree with a given label: "none" or what the link
    \* made by _create_compat_symlink points to
    links,
    \* create_mirrorlists, one call at a time per process
    cml,        \* per process: position, whether options.lock_dir is set, what the call came to
    \* run_one_tag from the resolution of 'latest' to the end of the main transfer
    ltUp,       \* the directory the remote 'latest' link points to now
    ltpc,       \* position inside run_one_tag
    ltDir,      \* latest_dir
    ltUrl,      \* source_url
    ltReads,    \* the directory each part of the transfer was read from
    ltResolves, \* number of downloads of the link
    \* calls of _create_compat_symlink on one working tree
    csPath,     \* what source/SRPMS is
    csSrc,      \* whether working_path/src exists
    cspc,       \* position inside _create_compat_symlink
    csPrior,    \* per call, what source/SRPMS was when the call started
    csRets,     \* per call, "ok" or "TagFailure"
    csIoErr,    \* whether some file operation failed for a reason outside the tree
    \* one call of rsync_with_link and one of rsync_exists
    rwIn,       \* delete, recursive and link_path of the call
    rwArgs,     \* the arguments handed to rsync(), << >> before the call
    rxCode,     \* the exit status of the listing
    rxRet,      \* what rsync_exists returned, "none" before the call
    \* one call of get_mirror_info_for_arch
    miIn,       \* hostname, tag.arch_rpms_mirror_base, arch and options.arch_mappings
    miOut,      \* (mirror_base, repomd_url), or NoInfo before the call
    \* one call of parse_config
    cfgIn,      \* args.destroot and the three root options of the [options] section
    cfgOut,     \* the three roots of the Distrepos object, or NoRoots before the call
    \* one call of link_static_data
    lsIn,       \* the configuration and the static source directory
    lsDst,      \* per name, what the destination directory holds under it
    lsOld,      \* lsDst when the call started
    lsCtl,      \* position of the call, loop index, result
    \* one call of link_latest_release for one release series
    llTree,     \* per dver, the rpm files under <series>/<dver>/release
    llLink,     \* per dver, what osg-<series>-<dver>-release-latest.rpm points to
    llCtl       \* position of the call, index of the dver, result

disk == <<working, released, previous, gen>>
rotCtl == <<rpc, rtag, rret, rpre, rlog>>
runVars == <<mpc, probe, tagidx, stage, successful, failed, uncaught, exitcode, failStage, disk0>>
coreVars == <<disk, rotCtl, lock, runVars>>
chkVars == <<chkResp, tz, chkResult>>
mirVars == <<mirExtras, mirpc, mirArch, mirHost, good, mirAcc, mirRet,
             mirWork, mirRel, mirPrev, mirDisk0, mirRotations>>
pkVars == <<pkTree, pkpc, pkArch, walk, wi, plFiles, plOld, plLink, relFiles>>
cndVars == <<cArches, cRepos, cpc, cIdx, cRepo, cLog, cRet>>
oldAux == <<chkVars, mirVars, pkVars, cndVars, links>>
cmlVars == <<cml>>
ltVars == <<ltUp, ltpc, ltDir, ltUrl, ltReads, ltResolves>>
csVars == <<csPath, csSrc, cspc, csPrior, csRets, csIoErr>>
rsVars == <<rwIn, rwArgs, rxCode, rxRet>>
miVars == <<miIn, miOut>>
cfgVars == <<cfgIn, cfgOut>>
lsVars == <<lsIn, lsDst, lsOld, lsCtl>>
llVars == <<llTree, llLink, llCtl>>
ext2Vars == <<miVars, cfgVars, lsVars, llVars>>
notCml == <<ltVars, csVars, rsVars, ext2Vars>>
notLt == <<cmlVars, csVars, rsVars, ext2Vars>>
notCs == <<cmlVars, ltVars, rsVars, ext2Vars>>
notRs == <<cmlVars, ltVars, csVars, ext2Vars>>
ext1Vars == <<cmlVars, ltVars, csVars, rsVars>>
notMi == <<ext1Vars, cfgVars, lsVars, llVars>>
notCfg == <<ext1Vars, miVars, lsVars, llVars>>
notLs == <<ext1Vars, miVars, cfgVars, llVars>>
notLl == <<ext1Vars, miVars, cfgVars, lsVars>>
extVars == <<ext1Vars, ext2Vars>>
auxVars == <<chkVars, mirVars, pkVars, cndVars, links, extVars>>
vars == <<working, released, previous, gen, rpc, rtag, rret, rpre, rlog, lock,
          mpc, probe, tagidx, stage, successful, failed, uncaught, exitcode, failStage, disk0,
          auxVars>>

\* ------------------------------------------------------- directory trees
\* A tree is the sequence of contents found at a path: << >> when nothing is
\* there, <<c>> for a directory with content c, <<c, d>> when a tree with
\* content d sits inside a directory with content c.  Content 0 is a directory
\* without entries, -1 an incomplete tree, g > 0 the complete tree number g.
Absent == << >>
EmptyDir == <<0>>
PartialDir == <<-1>>

Exists(d) == d # Absent
IsSnapshot(d) == Len(d) = 1 /\ d[1] > 0

\* shutil.move(src, dst): the possible results [ok, src, dst].  A destination
\* that is an existing directory receives the source INSIDE it, under the
\* source's basename (the three paths of a tag share the basename tag.dest),
\* and the call raises when that entry is already there.  Without a
\* destination the source is renamed, or copied and then removed: a copy that
\* fails on the way leaves an incomplete destination and the source in place,
\* a removal that fails on the way leaves the whole copy and a damaged source.
ShutilMove_lossy(src, dst) ==
    IF ~Exists(src) \/ Len(dst) > 1
    THEN {[ok |-> FALSE, src |-> src, dst |-> dst]}
    ELSE IF Exists(dst)
    THEN {[ok |-> TRUE, src |-> Absent, dst |-> dst \o src],
          [ok |-> FALSE, src |-> src, dst |-> dst]}
    ELSE {[ok |-> TRUE, src |-> Absent, dst |-> src],
          [ok |-> FALSE, src |-> src, dst |-> dst],
          [ok |-> FALSE, src |-> PartialDir, dst |-> PartialDir],
          [ok |-> FALSE, src |-> PartialDir, dst |-> src]}

ShutilMove(src, dst) ==
    IF ~Exists(src) \/ Len(dst) > 1
    THEN {[ok |-> FALSE, src |-> src, dst |-> dst]}
    ELSE IF Exists(dst)
    THEN {[ok |-> TRUE, src |-> Absent, dst |-> dst \o src],
          [ok |-> FALSE, src |-> src, dst |-> dst]}
    ELSE {[ok |-> TRUE, src |-> Absent, dst |-> src],
          [ok |-> FALSE, src |-> src, dst |-> dst],
          [ok |-> FALSE, src |-> src, dst |-> PartialDir],
          [ok |-> FALSE, src |-> PartialDir, dst |-> src]}

\* shutil.rmtree(d): the possible results [ok, d]; a failing removal leaves
\* the tree untouched or partly removed.
ShutilRmtree(d) ==
    IF ~Exists(d)
    THEN {[ok |-> FALSE, d |-> d]}
    ELSE {[ok |-> TRUE, d |-> Absent],
          [ok |-> FALSE, d |-> d],
          [ok |-> FALSE, d |-> PartialDir]}

\* ------------------------------------------- _update_release_repos (rotate)
NoPre == [w |-> Absent, r |-> Absent, v |-> Absent]
NoLog == [moved |-> FALSE, final |-> "none", rollback |-> "none"]

RotIdle ==
    /\ rpc = [p \in Rotators |-> "idle"]
    /\ rtag = [p \in Rotators |-> 0]
    /\ rret = [p \in Rotators |-> "none"]
    /\ rpre = [p \in Rotators |-> NoPre]
    /\ rlog = [p \in Rotators |-> NoLog]

\* The invocation ends: it returns (how = "ok") or raises (how = the exception).
RotEnd(p, how) ==
    /\ rpc' = [rpc EXCEPT ![p] = "done"]
    /\ rret' = [rret EXCEPT ![p] = how]

RotGoto(p, where) ==
    /\ rpc' = [rpc EXCEPT ![p] = where]
    /\ UNCHANGED rret

\* The caller hands the three paths of tag t to _update_release_repos (the
\* model follows trees nested up to MaxNest deep).
RCall(p, t) ==
    /\ rpc[p] = "idle"
    /\ Len(released[t]) <= MaxNest /\ Len(previous[t]) <= MaxNest
    /\ rpc' = [rpc EXCEPT ![p] = "check_working"]
    /\ rtag' = [rtag EXCEPT ![p] = t]
    /\ rret' = [rret EXCEPT ![p] = "none"]
    /\ rpre' = [rpre EXCEPT ![p] = [w |-> working[t], r |-> released[t], v |-> previous[t]]]
    /\ rlog' = [rlog EXCEPT ![p] = NoLog]
    /\ UNCHANGED <<working, released, previous, gen>>
    /\ UNCHANGED <<lock, runVars, auxVars>>

\* if not working_path.exists(): raise TagFailure
RCheckWorking_nocheck(p) ==
    /\ rpc[p] = "check_working"
    /\ RotGoto(p, "check_previous")
    /\ UNCHANGED <<working, released, previous, gen, rtag, rpre, rlog>>
    /\ UNCHANGED <<lock, runVars, auxVars>>

RCheckWorking(p) ==
    /\ rpc[p] = "check_working"
    /\ IF Exists(working[rtag[p]])
       THEN RotGoto(p, "check_previous")
       ELSE RotEnd(p, "TagFailure")
    /\ UNCHANGED <<working, released, previous, gen, rtag, rpre, rlog>>
    /\ UNCHANGED <<lock, runVars, auxVars>>

\* if previous_path.exists():
RCheckPrevious_never(p) ==
    /\ rpc[p] = "check_previous"
    /\ RotGoto(p, "mk_previous_parent")
    /\ UNCHANGED <<working, released, previous, gen, rtag, rpre, rlog>>
    /\ UNCHANGED <<lock, runVars, auxVars>>

RCheckPrevious(p) ==
    /\ rpc[p] = "check_previous"
    /\ IF Exists(previous[rtag[p]])
       THEN RotGoto(p, "rm_previous")
       ELSE RotGoto(p, "mk_previous_parent")
    /\ UNCHANGED <<working, released, previous, gen, rtag, rpre, rlog>>
    /\ UNCHANGED <<lock, runVars, auxVars>>

\* shutil.rmtree(previous_path); OSError -> TagFailure
RRmPrevious(p) ==
    /\ rpc[p] = "rm_previous"
    /\ \E o \in ShutilRmtree(previous[rtag[p]]) :
          /\ previous' = [previous EXCEPT ![rtag[p]] = o.d]
          /\ IF o.ok THEN RotGoto(p, "mk_previous_parent") ELSE RotEnd(p, "TagFailure")
    /\ UNCHANGED <<working, released, gen, rtag, rpre, rlog>>
    /\ UNCHANGED <<lock, runVars, auxVars>>

\* previous_path.parent.mkdir(parents=True, exist_ok=True), outside any try
RMkPreviousParent(p) ==
    /\ rpc[p] = "mk_previous_parent"
    /\ \E ok \in BOOLEAN :
          IF ok THEN RotGoto(p, "check_release") ELSE RotEnd(p, "OSError")
    /\ UNCHANGED <<working, released, previous, gen, rtag, rpre, rlog>>
    /\ UNCHANGED <<lock, runVars, auxVars>>

\* if release_path.exists():
RCheckRelease(p) ==
    /\ rpc[p] = "check_release"
    /\ IF Exists(released[rtag[p]])
       THEN RotGoto(p, "mv_release")
       ELSE RotGoto(p, "mk_release_parent")
    /\ UNCHANGED <<working, released, previous, gen, rtag, rpre, rlog>>
    /\ UNCHANGED <<lock, runVars, auxVars>>

\* shutil.move(release_path, previous_path); OSError -> TagFailure
RMvRelease(p) ==
    /\ rpc[p] = "mv_release"
    /\ \E o \in ShutilMove(released[rtag[p]], previous[rtag[p]]) :
          /\ released' = [released EXCEPT ![rtag[p]] = o.src]
          /\ previous' = [previous EXCEPT ![rtag[p]] = o.dst]
          /\ IF o.ok
             THEN /\ RotGoto(p, "mk_release_parent")
                  /\ rlog' = [rlog EXCEPT ![p].moved = TRUE]
             ELSE /\ RotEnd(p, "TagFailure")
                  /\ UNCHANGED rlog
    /\ UNCHANGED <<working, gen, rtag, rpre>>
    /\ UNCHANGED <<lock, runVars, auxVars>>

\* release_path.parent.mkdir(parents=True, exist_ok=True), outside any try
RMkReleaseParent(p) ==
    /\ rpc[p] = "mk_release_parent"
    /\ \E ok \in BOOLEAN :
          IF ok THEN RotGoto(p, "mv_working") ELSE RotEnd(p, "OSError")
    /\ UNCHANGED <<working, released, previous, gen, rtag, rpre, rlog>>
    /\ UNCHANGED <<lock, runVars, auxVars>>

\* shutil.move(working_path, release_path); OSError -> undo
RMvWorking_cleanup(p) ==
    /\ rpc[p] = "mv_working"
    /\ \E o \in ShutilMove(working[rtag[p]], released[rtag[p]]) :
          /\ working' = [working EXCEPT ![rtag[p]] = IF o.ok THEN o.src ELSE Absent]
          /\ released' = [released EXCEPT ![rtag[p]] = o.dst]
          /\ IF o.ok
             THEN /\ RotEnd(p, "ok")
                  /\ rlog' = [rlog EXCEPT ![p].final = "ok"]
             ELSE /\ RotGoto(p, "check_rollback")
                  /\ rlog' = [rlog EXCEPT ![p].final =
                                 IF o.dst = released[rtag[p]] THEN "clean" ELSE "littered"]
    /\ UNCHANGED <<previous, gen, rtag, rpre>>
    /\ UNCHANGED <<lock, runVars, auxVars>>

RMvWorking(p) ==
    /\ rpc[p] = "mv_working"
    /\ \E o \in ShutilMove(working[rtag[p]], released[rtag[p]]) :
          /\ working' = [working EXCEPT ![rtag[p]] = o.src]
          /\ released' = [released EXCEPT ![rtag[p]] = o.dst]
          /\ IF o.ok
             THEN /\ RotEnd(p, "ok")
                  /\ rlog' = [rlog EXCEPT ![p].final = "ok"]
             ELSE /\ RotGoto(p, "check_rollback")
                  /\ rlog' = [rlog EXCEPT ![p].final =
                                 IF o.dst = released[rtag[p]] THEN "clean" ELSE "littered"]
    /\ UNCHANGED <<previous, gen, rtag, rpre>>
    /\ UNCHANGED <<lock, runVars, auxVars>>

\* if previous_path.exists(): ... ; raise TagFailure
RCheckRollback(p) ==
    /\ rpc[p] = "check_rollback"
    /\ IF Exists(previous[rtag[p]])
       THEN RotGoto(p, "rollback")
       ELSE RotEnd(p, "TagFailure")
    /\ UNCHANGED <<working, released, previous, gen, rtag, rpre, rlog>>
    /\ UNCHANGED <<lock, runVars, auxVars>>

\* shutil.move(previous_path, release_path), its OSError only logged; raise TagFailure
RRollback_noraise(p) ==
    /\ rpc[p] = "rollback"
    /\ \E o \in ShutilMove(previous[rtag[p]], released[rtag[p]]) :
          /\ previous' = [previous EXCEPT ![rtag[p]] = o.src]
          /\ released' = [released EXCEPT ![rtag[p]] = o.dst]
          /\ rlog' = [rlog EXCEPT ![p].rollback = IF o.ok THEN "ok" ELSE "failed"]
    /\ RotEnd(p, "ok")
    /\ UNCHANGED <<working, gen, rtag, rpre>>
    /\ UNCHANGED <<lock, runVars, auxVars>>

RRollback_copy(p) ==
    /\ rpc[p] = "rollback"
    /\ \E o \in ShutilMove(previous[rtag[p]], released[rtag[p]]) :
          /\ released' = [released EXCEPT ![rtag[p]] = o.dst]
          /\ rlog' = [rlog EXCEPT ![p].rollback = IF o.ok THEN "ok" ELSE "failed"]
    /\ RotEnd(p, "TagFailure")
    /\ UNCHANGED <<working, previous, gen, rtag, rpre>>
    /\ UNCHANGED <<lock, runVars, auxVars>>

RRollback(p) ==
    /\ rpc[p] = "rollback"
    /\ \E o \in ShutilMove(previous[rtag[p]], released[rtag[p]]) :
          /\ previous' = [previous EXCEPT ![rtag[p]] = o.src]
          /\ released' = [released EXCEPT ![rtag[p]] = o.dst]
          /\ rlog' = [rlog EXCEPT ![p].rollback = IF o.ok THEN "ok" ELSE "failed"]
    /\ RotEnd(p, "TagFailure")
    /\ UNCHANGED <<working, gen, rtag, rpre>>
    /\ UNCHANGED <<lock, runVars, auxVars>>

\* Control is back in the caller.
RReturn(p) ==
    /\ rpc[p] = "done"
    /\ rpc' = [rpc EXCEPT ![p] = "idle"]
    /\ rtag' = [rtag EXCEPT ![p] = 0]
    /\ rret' = [rret EXCEPT ![p] = "none"]
    /\ rpre' = [rpre EXCEPT ![p] = NoPre]
    /\ rlog' = [rlog EXCEPT ![p] = NoLog]
    /\ UNCHANGED <<working, released, previous, gen>>
    /\ UNCHANGED <<lock, runVars, auxVars>>

\* A later run builds the working tree of tag t anew: os.makedirs(working_path)
\* and the transfer into it.
Populate(t) ==
    /\ \A p \in Rotators : rpc[p] = "idle"
    /\ gen <= MaxGen
    /\ working' = [working EXCEPT ![t] = <<gen>>]
    /\ gen' = gen + 1
    /\ UNCHANGED <<released, previous, rpc, rtag, rret, rpre, rlog>>
    /\ UNCHANGED <<lock, runVars, auxVars>>

\* ------------------------------------------------ acquire_lock / release_lock
\* lock.path   the inode the lock path names (0: no such file)
\* lock.next   the number of the next inode to be created
\* lock.owner  per inode, the process whose open file holds the flock (0: none)
\* lock.fd     per process, the inode of its open lock file (0: none)
\* lock.pc     per process: "idle", "opened" (after open), "held" (a handle was
\*             returned), "closed" (release_lock before its unlink)
\* lock.res    per process, the outcome of its last call
Inodes == 1..MaxInodes

LockStart ==
    [path |-> 0, next |-> 1,
     owner |-> [i \in Inodes |-> 0],
     fd |-> [p \in LockProcs |-> 0],
     pc |-> [p \in LockProcs |-> "idle"],
     res |-> [p \in LockProcs |-> "none"]]

\* filehandle = open(lock_path, "w"): the existing file, or a new one
LockOpen(s, p) ==
    IF s.path # 0
    THEN [s EXCEPT !.fd[p] = s.path, !.pc[p] = "opened"]
    ELSE [s EXCEPT !.path = s.next, !.next = s.next + 1,
                   !.fd[p] = s.next, !.pc[p] = "opened"]

\* fcntl.flock(fd, LOCK_EX | LOCK_NB); BlockingIOError -> return None
LockFlock_nocheck(s, p) ==
    [s EXCEPT !.owner[s.fd[p]] = p, !.pc[p] = "held", !.res[p] = "handle"]

LockFlock_unlink(s, p) ==
    IF s.owner[s.fd[p]] # 0
    THEN [s EXCEPT !.path = 0, !.fd[p] = 0, !.pc[p] = "idle", !.res[p] = "None"]
    ELSE [s EXCEPT !.owner[s.fd[p]] = p, !.pc[p] = "held", !.res[p] = "handle"]

LockFlock(s, p) ==
    IF s.owner[s.fd[p]] # 0
    THEN [s EXCEPT !.fd[p] = 0, !.pc[p] = "idle", !.res[p] = "None"]
    ELSE [s EXCEPT !.owner[s.fd[p]] = p, !.pc[p] = "held", !.res[p] = "handle"]

\* fcntl.flock(fd, LOCK_UN); lock_fh.close()
LockUnlockClose(s, p) ==
    [s EXCEPT !.owner[s.fd[p]] = 0, !.fd[p] = 0, !.pc[p] = "closed"]

\* os.unlink(lock_path): raises when the path names no file
LockUnlink(s, p) ==
    IF s.path # 0
    THEN [s EXCEPT !.path = 0, !.pc[p] = "idle", !.res[p] = "released"]
    ELSE [s EXCEPT !.pc[p] = "idle", !.res[p] = "FileNotFoundError"]

CanOpen(s) == s.path # 0 \/ s.next <= MaxInodes

\* The steps of the two functions, one system call at a time.
LOpen(p) ==
    /\ lock.pc[p] = "idle"
    /\ CanOpen(lock)
    /\ lock' = LockOpen(lock, p)
    /\ UNCHANGED <<disk, rotCtl, runVars, auxVars>>

LFlock(p) ==
    /\ lock.pc[p] = "opened"
    /\ lock' = LockFlock(lock, p)
    /\ UNCHANGED <<disk, rotCtl, runVars, auxVars>>

LUnlockClose(p) ==
    /\ lock.pc[p] = "held"
    /\ lock' = LockUnlockClose(lock, p)
    /\ UNCHANGED <<disk, rotCtl, runVars, auxVars>>

LUnlink(p) ==
    /\ lock.pc[p] = "closed"
    /\ lock' = LockUnlink(lock, p)
    /\ UNCHANGED <<disk, rotCtl, runVars, auxVars>>

\* The two functions as whole calls, for callers that never overlap.
AcquireLock(p) ==
    /\ lock.pc[p] = "idle"
    /\ CanOpen(lock)
    /\ lock' = LockFlock(LockOpen(lock, p), p)
    /\ UNCHANGED <<disk, rotCtl, runVars, auxVars>>

ReleaseLock(p) ==
    /\ lock.pc[p] = "held"
    /\ lock' = LockUnlink(LockUnlockClose(lock, p), p)
    /\ UNCHANGED <<disk, rotCtl, runVars, auxVars>>

Holders(s) == {p \in LockProcs : s.pc[p] = "held"}

\* ------------------------------------- main / Distrepos.run / run_one_tag
Stages == {"makedirs", "latest", "rsync", "condor", "pkglist", "createrepo"}

InSeq(x, q) == \E i \in 1..Len(q) : q[i] = x

RunStart ==
    /\ mpc = "start"
    /\ probe = "none"
    /\ tagidx = 0
    /\ stage = "none"
    /\ successful = << >>
    /\ failed = << >>
    /\ uncaught = "none"
    /\ exitcode = -1
    /\ failStage = [t \in Tags |-> "none"]
    /\ disk0 = [w |-> working, r |-> released, v |-> previous]

EndTag_dropfailed(ok) ==
    /\ successful' = IF ok THEN Append(successful, tagidx) ELSE successful
    /\ failed' = failed
    /\ tagidx' = tagidx + 1
    /\ stage' = IF tagidx < NTags THEN "makedirs" ELSE "none"
    /\ mpc' = IF tagidx < NTags THEN "run" ELSE "report"
    /\ UNCHANGED <<uncaught, exitcode>>

\* run_one_tag returned ok for the current tag; Distrepos.run appends it to a
\* list and takes the next tag, or returns to main.
EndTag(ok) ==
    /\ successful' = IF ok THEN Append(successful, tagidx) ELSE successful
    /\ failed' = IF ok THEN failed ELSE Append(failed, tagidx)
    /\ tagidx' = tagidx + 1
    /\ stage' = IF tagidx < NTags THEN "makedirs" ELSE "none"
    /\ mpc' = IF tagidx < NTags THEN "run" ELSE "report"
    /\ UNCHANGED <<uncaught, exitcode>>

\* An exception that neither run_one_tag nor main catches ends the process
\* with the interpreter's status 1.
Escape(exc) ==
    /\ uncaught' = exc
    /\ exitcode' = 1
    /\ mpc' = "exited"
    /\ UNCHANGED <<tagidx, stage, successful, failed>>

\* rsync() could not start the program: ProgramError(ERR_RSYNC), which the
\* __main__ block turns into the exit status.
Fatal(code) ==
    /\ uncaught' = "none"
    /\ exitcode' = code
    /\ mpc' = "exited"
    /\ UNCHANGED <<tagidx, stage, successful, failed>>

GoStage(s) ==
    /\ stage' = s
    /\ UNCHANGED <<mpc, tagidx, successful, failed, uncaught, exitcode>>

FailAt(s) == failStage' = [failStage EXCEPT ![tagidx] = s]

\* rsync(*args, **kwargs) -> sp.run(cmd, **kwargs): what a call can come to.
\* "oserror": the program could not be started.  A remote side that never
\* answers ends a call that was given timeout= (TimeoutExpired) and blocks a
\* call that was given none.
RsyncResults(hasTimeout) ==
    {"ok", "failed", "oserror"} \cup (IF hasTimeout THEN {"timeout"} ELSE {"hang"})

\* The process waits in sp.run for a child that never ends.
Hang ==
    /\ mpc' = "hung"
    /\ UNCHANGED <<tagidx, stage, successful, failed, uncaught, exitcode>>

\* dr.check_rsync(): the listing of the koji-hub root, with a timeout
CheckRsync_ignore ==
    /\ mpc = "start"
    /\ \E o \in {"ok", "failed", "timeout", "oserror"} :
          /\ probe' = o
          /\ mpc' = IF NTags > 0 THEN "run" ELSE "report"
          /\ tagidx' = 1
          /\ stage' = IF NTags > 0 THEN "makedirs" ELSE "none"
          /\ UNCHANGED <<successful, failed, uncaught, exitcode>>
    /\ UNCHANGED <<working, released, previous, gen, failStage, disk0>>
    /\ UNCHANGED <<rotCtl, lock, auxVars>>

CheckRsync ==
    /\ mpc = "start"
    /\ \E o \in RsyncResults(TRUE) :
          /\ probe' = o
          /\ IF o = "ok"
             THEN /\ mpc' = IF NTags > 0 THEN "run" ELSE "report"
                  /\ tagidx' = 1
                  /\ stage' = IF NTags > 0 THEN "makedirs" ELSE "none"
                  /\ UNCHANGED <<successful, failed, uncaught, exitcode>>
             ELSE Fatal(ERR_RSYNC)
    /\ UNCHANGED <<working, released, previous, gen, failStage, disk0>>
    /\ UNCHANGED <<rotCtl, lock, auxVars>>

\* os.makedirs(working_path, exist_ok=True); OSError -> return False
MakeWorkingDir ==
    /\ mpc = "run" /\ stage = "makedirs"
    /\ \E ok \in BOOLEAN :
          IF ok
          THEN /\ working' = [working EXCEPT ![tagidx] =
                                 IF Exists(@) THEN @ ELSE EmptyDir]
               /\ GoStage("latest")
               /\ UNCHANGED failStage
          ELSE /\ FailAt("makedirs")
               /\ EndTag(FALSE)
               /\ UNCHANGED working
    /\ UNCHANGED <<released, previous, gen, probe, disk0>>
    /\ UNCHANGED <<rotCtl, lock, auxVars>>

\* latest_dir = self._get_latest_dir(tag.source), called before the try block
GetLatestDir ==
    /\ mpc = "run" /\ stage = "latest"
    /\ \E o \in RsyncResults(TRUE) :
          CASE o = "ok" -> GoStage("rsync") /\ UNCHANGED failStage
            [] o = "oserror" -> Fatal(ERR_RSYNC) /\ UNCHANGED failStage
            [] OTHER -> FailAt("latest") /\ Escape("TagFailure")
    /\ UNCHANGED <<working, released, previous, gen, probe, disk0>>
    /\ UNCHANGED <<rotCtl, lock, auxVars>>

\* self._rsync_one_tag(...): rsync_with_link into working_path; not ok -> TagFailure
RsyncOneTag_skipmerge ==
    /\ mpc = "run" /\ stage = "rsync"
    /\ \E o \in RsyncResults(FALSE) :
          CASE o = "ok" ->
                 /\ working' = [working EXCEPT ![tagidx] = <<gen>>]
                 /\ gen' = gen + 1
                 /\ GoStage("pkglist")
                 /\ UNCHANGED failStage
            [] o = "oserror" ->
                 /\ Fatal(ERR_RSYNC)
                 /\ UNCHANGED <<working, gen, failStage>>
            [] o = "hang" ->
                 /\ Hang
                 /\ \E d \in {working[tagidx], PartialDir} :
                       working' = [working EXCEPT ![tagidx] = d]
                 /\ UNCHANGED <<gen, failStage>>
            [] OTHER ->
                 /\ \E d \in {working[tagidx], PartialDir} :
                       working' = [working EXCEPT ![tagidx] = d]
                 /\ FailAt("rsync")
                 /\ EndTag(FALSE)
                 /\ UNCHANGED gen
    /\ UNCHANGED <<released, previous, probe, disk0>>
    /\ UNCHANGED <<rotCtl, lock, auxVars>>

RsyncOneTag ==
    /\ mpc = "run" /\ stage = "rsync"
    /\ \E o \in RsyncResults(FALSE) :
          CASE o = "ok" ->
                 /\ working' = [working EXCEPT ![tagidx] = <<gen>>]
                 /\ gen' = gen + 1
                 /\ GoStage("condor")
                 /\ UNCHANGED failStage
            [] o = "oserror" ->
                 /\ Fatal(ERR_RSYNC)
                 /\ UNCHANGED <<working, gen, failStage>>
            [] o = "hang" ->
                 /\ Hang
                 /\ \E d \in {working[tagidx], PartialDir} :
                       working' = [working EXCEPT ![tagidx] = d]
                 /\ UNCHANGED <<gen, failStage>>
            [] OTHER ->
                 /\ \E d \in {working[tagidx], PartialDir} :
                       working' = [working EXCEPT ![tagidx] = d]
                 /\ FailAt("rsync")
                 /\ EndTag(FALSE)
                 /\ UNCHANGED gen
    /\ UNCHANGED <<released, previous, probe, disk0>>
    /\ UNCHANGED <<rotCtl, lock, auxVars>>

\* self._pull_condor_repos(tag): not ok -> TagFailure
PullCondorRepos ==
    /\ mpc = "run" /\ stage = "condor"
    /\ \E o \in RsyncResults(FALSE) :
          CASE o = "ok" -> GoStage("pkglist") /\ UNCHANGED failStage
            [] o = "oserror" -> Fatal(ERR_RSYNC) /\ UNCHANGED failStage
            [] o = "hang" -> Hang /\ UNCHANGED failStage
            [] OTHER -> FailAt("condor") /\ EndTag(FALSE)
    /\ UNCHANGED <<working, released, previous, gen, probe, disk0>>
    /\ UNCHANGED <<rotCtl, lock, auxVars>>

\* self._update_pkglist_files(working_path, tag.arches): OSError -> TagFailure
UpdatePkglistFiles ==
    /\ mpc = "run" /\ stage = "pkglist"
    /\ \E ok \in BOOLEAN :
          IF ok
          THEN GoStage("createrepo") /\ UNCHANGED failStage
          ELSE FailAt("pkglist") /\ EndTag(FALSE)
    /\ UNCHANGED <<working, released, previous, gen, probe, disk0>>
    /\ UNCHANGED <<rotCtl, lock, auxVars>>

\* self._run_createrepo(working_path, tag.arches): raise NotImplementedError(),
\* which is no TagFailure and no ProgramError
RunCreaterepo ==
    /\ mpc = "run" /\ stage = "createrepo"
    /\ FailAt("createrepo")
    /\ Escape("NotImplementedError")
    /\ UNCHANGED <<working, released, previous, gen, probe, disk0>>
    /\ UNCHANGED <<rotCtl, lock, auxVars>>

\* main: "if failed: return ERR_FAILURES / elif not successful: return
\* ERR_EMPTY / return 0"
ExitStatus_emptyfirst(succ, fail) ==
    IF succ = << >> THEN ERR_EMPTY
    ELSE IF fail # << >> THEN ERR_FAILURES ELSE 0

ExitStatus(succ, fail) ==
    IF fail # << >> THEN ERR_FAILURES
    ELSE IF succ = << >> THEN ERR_EMPTY ELSE 0

\* main: the report on the two lists and the exit status
Report ==
    /\ mpc = "report"
    /\ exitcode' = ExitStatus(successful, failed)
    /\ mpc' = "exited"
    /\ UNCHANGED <<working, released, previous, gen, probe, tagidx, stage,
                   successful, failed, uncaught, failStage, disk0>>
    /\ UNCHANGED <<rotCtl, lock, auxVars>>

\* ------------------------------------------------- distrepos.__main__.main
\* distrepos.tag_run.run_one_tag(options, tag) returns (ok, err): either
\* success or the failure of one stage of the tag's pipeline.
RunOneTagResults ==
    {[ok |-> TRUE, err |-> "none"]}
        \cup {[ok |-> FALSE, err |-> s] : s \in Stages \cup {"rotate"}}

\* The body of "for tag in taglist": ok, err = run_one_tag(options, tag), then
\* successful.append(tag) or failed.append((tag, err)).  The trees are not
\* followed here.
MainRunOneTag ==
    /\ mpc = "run" /\ stage = "makedirs"
    /\ \E r \in RunOneTagResults :
          IF r.ok
          THEN EndTag(TRUE) /\ UNCHANGED failStage
          ELSE FailAt(r.err) /\ EndTag(FALSE)
    /\ UNCHANGED <<working, released, previous, gen, probe, disk0>>
    /\ UNCHANGED <<rotCtl, lock, auxVars>>


\* ------------------------------------------------- distrepos/mirror_run.py
Hosts == 1..NHosts

\* get_baseline_urls(): one host, always the first of the candidates
BaselineHost == 1

\* tag.arches
MirArches == <<"x86_64", "aarch64">>

\* mirror_hostnames = get_baseline_urls() + options.mirror_hosts
MirrorHostnames(extras) == <<BaselineHost>> \o extras

\* get_mirror_info_for_arch: mirror_base is the host joined with the tag's
\* path in which $ARCH is replaced by the architecture
MirrorBase(host, arch) == <<host, arch>>

\* What a host can answer.  Status 0 stands for no HTTP response at all
\* (requests.get raises); the Last-Modified header is absent, not in the
\* format of strptime, or a date that lies `age` hours back.
TzOffsets == {-1, 0, 1}
HttpStatuses == {0, 200, 404, 500}
LastModifieds ==
    {[hdr |-> "absent", age |-> 0], [hdr |-> "garbled", age |-> 0]}
        \cup {[hdr |-> "date", age |-> a] : a \in (FRESH_HOURS - 2)..MaxAgeHours}
Responses == [meta : HttpStatuses, lastmod : LastModifieds, pkglist : HttpStatuses]

\* is_migrated(repomd_url): the request for the sibling pkglist
IsMigrated(status) ==
    IF status = 0 THEN "RequestException"
    ELSE IF status = 404 THEN "False"
    ELSE IF status # 200 THEN "False"
    ELSE "True"

\* datetime.now() - lastmodtime: strptime yields the fields of the GMT date
\* without a zone and datetime.now() the fields of the local clock without a
\* zone, so the difference is the age plus the offset of the local clock.
NaiveAge(age, offset) == age + offset

\* test_single_mirror(repodata_url): "True", "False" or the exception raised
TestSingleMirror(resp, offset) ==
    IF resp.meta = 0 THEN "RequestException"
    ELSE IF resp.meta # 200 THEN "False"
    ELSE IF resp.lastmod.hdr = "absent" THEN "False"
    ELSE IF resp.lastmod.hdr = "garbled" THEN "ValueError"
    ELSE IF NaiveAge(resp.lastmod.age, offset) > FRESH_HOURS THEN "False"
    ELSE IsMigrated(resp.pkglist)

\* Everything a call of test_single_mirror can come to.
MirrorTestResults ==
    {TestSingleMirror(resp, offset) : resp \in Responses, offset \in TzOffsets}

\* A call of test_single_mirror on the responses drawn at the start.
MirrorCheck ==
    /\ chkResult = "none"
    /\ chkResult' = TestSingleMirror(chkResp, tz)
    /\ UNCHANGED <<chkResp, tz>>
    /\ UNCHANGED <<coreVars, mirVars, pkVars, cndVars, links, extVars>>

\* A mirror-list directory: whether it is there, and per architecture the
\* lines of the file of that name (no lines: no such file).
NoMirDir == [there |-> FALSE, files |-> [a \in 1..Len(MirArches) |-> << >>]]
OldMirDir(h) ==
    [there |-> TRUE, files |-> [a \in 1..Len(MirArches) |-> <<MirrorBase(h, MirArches[a])>>]]

MirIdle ==
    /\ mirExtras = << >>
    /\ mirpc = "idle"
    /\ mirArch = 0
    /\ mirHost = 0
    /\ good = << >>
    /\ mirAcc = [a \in 1..Len(MirArches) |-> << >>]
    /\ mirRet = "none"
    /\ mirWork = NoMirDir /\ mirRel = NoMirDir /\ mirPrev = NoMirDir
    /\ mirDisk0 = [r |-> NoMirDir, v |-> NoMirDir]
    /\ mirRotations = 0

ChkIdle ==
    /\ chkResp = [meta |-> 0, lastmod |-> [hdr |-> "absent", age |-> 0], pkglist |-> 0]
    /\ tz = 0
    /\ chkResult = "none"

\* update_mirrors_for_tag left by an exception or a return
MirEnd(how) ==
    /\ mirRet' = how
    /\ mirpc' = "done"

\* "for hostname in mirror_hostnames": one host checked, its mirror_base
\* appended when test_single_mirror returned True
MirTestHost_all ==
    /\ mirpc = "hosts"
    /\ mirHost <= Len(MirrorHostnames(mirExtras))
    /\ \E r \in MirrorTestResults :
          LET h == MirrorHostnames(mirExtras)[mirHost]
          IN  IF r \in {"True", "False"}
              THEN /\ good' = Append(good, MirrorBase(h, MirArches[mirArch]))
                   /\ mirAcc' = [mirAcc EXCEPT ![mirArch] = Append(@, r = "True")]
                   /\ mirHost' = mirHost + 1
                   /\ UNCHANGED <<mirpc, mirRet>>
              ELSE /\ MirEnd(r)
                   /\ UNCHANGED <<good, mirAcc, mirHost>>
    /\ UNCHANGED <<mirExtras, mirArch, mirWork, mirRel, mirPrev, mirDisk0, mirRotations>>
    /\ UNCHANGED <<coreVars, chkVars, pkVars, cndVars, links, extVars>>

MirTestHost ==
    /\ mirpc = "hosts"
    /\ mirHost <= Len(MirrorHostnames(mirExtras))
    /\ \E r \in MirrorTestResults :
          LET h == MirrorHostnames(mirExtras)[mirHost]
          IN  IF r \in {"True", "False"}
              THEN /\ good' = IF r = "True"
                              THEN Append(good, MirrorBase(h, MirArches[mirArch]))
                              ELSE good
                   /\ mirAcc' = [mirAcc EXCEPT ![mirArch] = Append(@, r = "True")]
                   /\ mirHost' = mirHost + 1
                   /\ UNCHANGED <<mirpc, mirRet>>
              ELSE /\ MirEnd(r)
                   /\ UNCHANGED <<good, mirAcc, mirHost>>
    /\ UNCHANGED <<mirExtras, mirArch, mirWork, mirRel, mirPrev, mirDisk0, mirRotations>>
    /\ UNCHANGED <<coreVars, chkVars, pkVars, cndVars, links, extVars>>

\* After the inner loop: "if not good_mirrors: return False, ..."; else the
\* working directory is made and the file of the architecture written, and
\* the outer loop goes on or ends.
MirWriteArch_always ==
    /\ mirpc = "hosts"
    /\ mirHost > Len(MirrorHostnames(mirExtras))
    /\ \E ok \in BOOLEAN :
          IF ok
          THEN /\ mirWork' = [there |-> TRUE,
                              files |-> [mirWork.files EXCEPT ![mirArch] = good]]
               /\ good' = << >>
               /\ mirHost' = 1
               /\ mirArch' = mirArch + 1
               /\ mirpc' = IF mirArch < Len(MirArches) THEN "hosts" ELSE "rotate"
               /\ UNCHANGED mirRet
          ELSE /\ MirEnd("OSError")
               /\ \E made \in {mirWork.there, TRUE} :
                     mirWork' = [mirWork EXCEPT !.there = made]
               /\ UNCHANGED <<good, mirHost, mirArch>>
    /\ UNCHANGED <<mirExtras, mirAcc, mirRel, mirPrev, mirDisk0, mirRotations>>
    /\ UNCHANGED <<coreVars, chkVars, pkVars, cndVars, links, extVars>>

MirWriteArch_rotateearly ==
    /\ mirpc = "hosts"
    /\ mirHost > Len(MirrorHostnames(mirExtras))
    /\ IF good = << >>
       THEN /\ MirEnd("fail")
            /\ UNCHANGED <<mirWork, good, mirHost, mirArch>>
       ELSE \E ok \in BOOLEAN :
              IF ok
              THEN /\ mirWork' = [there |-> TRUE,
                                  files |-> [mirWork.files EXCEPT ![mirArch] = good]]
                   /\ good' = << >>
                   /\ mirHost' = 1
                   /\ mirArch' = mirArch + 1
                   /\ mirpc' = "rotate"
                   /\ UNCHANGED mirRet
              ELSE /\ MirEnd("OSError")
                   /\ \E made \in {mirWork.there, TRUE} :
                         mirWork' = [mirWork EXCEPT !.there = made]
                   /\ UNCHANGED <<good, mirHost, mirArch>>
    /\ UNCHANGED <<mirExtras, mirAcc, mirRel, mirPrev, mirDisk0, mirRotations>>
    /\ UNCHANGED <<coreVars, chkVars, pkVars, cndVars, links, extVars>>

MirWriteArch ==
    /\ mirpc = "hosts"
    /\ mirHost > Len(MirrorHostnames(mirExtras))
    /\ IF good = << >>
       THEN /\ MirEnd("fail")
            /\ UNCHANGED <<mirWork, good, mirHost, mirArch>>
       ELSE \E ok \in BOOLEAN :
              IF ok
              THEN /\ mirWork' = [there |-> TRUE,
                                  files |-> [mirWork.files EXCEPT ![mirArch] = good]]
                   /\ good' = << >>
                   /\ mirHost' = 1
                   /\ mirArch' = mirArch + 1
                   /\ mirpc' = IF mirArch < Len(MirArches) THEN "hosts" ELSE "rotate"
                   /\ UNCHANGED mirRet
              ELSE /\ MirEnd("OSError")
                   /\ \E made \in {mirWork.there, TRUE} :
                         mirWork' = [mirWork EXCEPT !.there = made]
                   /\ UNCHANGED <<good, mirHost, mirArch>>
    /\ UNCHANGED <<mirExtras, mirAcc, mirRel, mirPrev, mirDisk0, mirRotations>>
    /\ UNCHANGED <<coreVars, chkVars, pkVars, cndVars, links, extVars>>

\* update_release_repos(dest_path, working_path, prev_path) of
\* distrepos.tag_run, then "return True, ''": the rotation of 4.3 taken as one
\* step, which publishes the working directory or fails with the released
\* directory restored.
MirRotate ==
    /\ mirpc = "rotate"
    /\ mirRotations' = mirRotations + 1
    /\ \E ok \in BOOLEAN :
          IF ok
          THEN /\ mirPrev' = mirRel
               /\ mirRel' = mirWork
               /\ mirWork' = NoMirDir
               /\ MirEnd("ok")
          ELSE /\ mirPrev' \in {mirPrev, NoMirDir}
               /\ UNCHANGED <<mirRel, mirWork>>
               /\ MirEnd("TagFailure")
    /\ UNCHANGED <<mirExtras, mirArch, mirHost, good, mirAcc, mirDisk0>>
    /\ UNCHANGED <<coreVars, chkVars, pkVars, cndVars, links, extVars>>

\* ------------------------------------------ Distrepos._update_pkglist_files
\* A file name is the sequence of its parts, so that fn.endswith(".src.rpm")
\* and "-debuginfo" in fn are tests on the parts.
SRC_RPM == <<".src", ".rpm">>
RPM == <<".rpm">>

EndsWith(fn, suffix) ==
    /\ Len(fn) >= Len(suffix)
    /\ SubSeq(fn, Len(fn) - Len(suffix) + 1, Len(fn)) = suffix

Contains(fn, part) == \E i \in 1..Len(fn) : fn[i] = part

\* "-debuginfo" in fn or "-debugsource" in fn
IsDebugName_infoonly(fn) == Contains(fn, "-debuginfo")

IsDebugName(fn) == Contains(fn, "-debuginfo") \/ Contains(fn, "-debugsource")

\* tag.arches
PkArches == <<"x86_64">>

PkTops == {"src"} \cup {PkArches[i] : i \in 1..Len(PkArches)}

FileNames ==
    {<<"a", ".src", ".rpm">>, <<"a", ".rpm">>, <<"a", "-debuginfo", ".rpm">>,
     <<"a", "-debugsource", ".rpm">>, <<"a", "-debuginfo", ".src", ".rpm">>,
     <<"a", ".rpm", ".asc">>}

\* A file <top>/Packages/<sub...>/<fn> of the working tree.
PkFile == [top : PkTops, sub : {<< >>, <<"a">>}, fn : FileNames]

RECURSIVE SubsetsUpTo(_, _)
SubsetsUpTo(S, n) ==
    IF n = 0 THEN {{}}
    ELSE LET P == SubsetsUpTo(S, n - 1) IN P \cup {q \cup {x} : q \in P, x \in S}

\* os.walk(packages_dir): every file of the tree once, in some order
RECURSIVE Walk(_)
Walk(S) ==
    IF S = {} THEN << >>
    ELSE LET x == CHOOSE y \in S : TRUE IN <<x>> \o Walk(S \ {x})

DirPath(f) == <<f.top, "Packages">> \o f.sub

\* os.path.relpath(path, start), both below working_path
Relpath(path, start) ==
    LET n == IF Len(path) < Len(start) THEN Len(path) ELSE Len(start)
        k == CHOOSE j \in 0..n :
                 /\ \A i \in 1..j : path[i] = start[i]
                 /\ j = n \/ path[j + 1] # start[j + 1]
        r == [i \in 1..(Len(start) - k) |-> ".."] \o SubSeq(path, k + 1, Len(path))
    IN  IF r = << >> THEN <<".">> ELSE r

\* rpm_path = os.path.join(os.path.relpath(dirpath, listdir), fn)
RpmPath(f, listdir) == [dir |-> Relpath(DirPath(f), listdir), fn |-> f.fn]

\* The names of the list files: <top>/pkglist, <top>/debug/pkglist, and each
\* of them with ".new" appended.
PlNames == {l \in [top : PkTops, debug : BOOLEAN, new : BOOLEAN] : l.top = "src" => ~l.debug}
FinalNames == {l \in PlNames : ~l.new}
Pkglist(top, debug) == [top |-> top, debug |-> debug, new |-> FALSE]

\* f"{pkglist}.new"
NewName_inplace(l) == l

NewName(l) == [l EXCEPT !.new = TRUE]

NoFile == [there |-> FALSE, lines |-> << >>]
EmptyFile == [there |-> TRUE, lines |-> << >>]
OldLine == [dir |-> <<"Packages", "o">>, fn |-> <<"old", ".rpm">>]
OldFile == [there |-> TRUE, lines |-> <<OldLine>>]

\* print(rpm_path, file=fh)
PrintLine(files, l, line) == [files EXCEPT ![l].lines = Append(@, line)]

\* shutil.move(src, dst) of a file onto a name of the same directory: a rename
FileMove(files, src, dst) ==
    IF src = dst THEN files ELSE [files EXCEPT ![dst] = files[src], ![src] = NoFile]

\* open(..., "wt") and print write into the file a name refers to: a file of
\* the released tree that is the same file gets the same content.
WrittenInPlace ==
    /\ relFiles' = [l \in FinalNames |-> IF plLink[l] THEN plFiles'[l] ELSE relFiles[l]]
    /\ UNCHANGED plLink

\* shutil.move of a file within one directory is os.rename: dst names the
\* file src named, and no file content is touched.
LinkMove(link, src, dst) ==
    IF src = dst THEN link ELSE [link EXCEPT ![dst] = link[src], ![src] = FALSE]

RelAfterMove_copy(rel, files, link, src, dst) ==
    IF link[dst] THEN [rel EXCEPT ![dst] = files[src]] ELSE rel

RelAfterMove(rel, files, link, src, dst) == rel

Renamed(src, dst) ==
    /\ plLink' = LinkMove(plLink, src, dst)
    /\ relFiles' = RelAfterMove(relFiles, plFiles, plLink, src, dst)

PkIdle ==
    /\ pkTree = {}
    /\ pkpc = "idle"
    /\ pkArch = 0
    /\ walk = << >>
    /\ wi = 0
    /\ plFiles = [l \in PlNames |-> NoFile]
    /\ plOld = [l \in FinalNames |-> NoFile]
    /\ plLink = [l \in PlNames |-> FALSE]
    /\ relFiles = [l \in FinalNames |-> NoFile]

\* except OSError as err: raise TagFailure(...)
PkFail == pkpc' = "failed"

\* open(f"{src_pkglist}.new", "wt")
PkOpenSrc ==
    /\ pkpc = "start"
    /\ \E ok \in BOOLEAN :
          IF ok
          THEN /\ plFiles' = [plFiles EXCEPT ![NewName(Pkglist("src", FALSE))] = EmptyFile]
               /\ walk' = Walk({f \in pkTree : f.top = "src"})
               /\ wi' = 1
               /\ pkpc' = "src_walk"
          ELSE /\ PkFail
               /\ UNCHANGED <<plFiles, walk, wi>>
    /\ WrittenInPlace
    /\ UNCHANGED <<pkTree, pkArch, plOld>>
    /\ UNCHANGED <<coreVars, chkVars, mirVars, cndVars, links, extVars>>

\* The body of the walk over src/Packages, for one file
PkWalkSrc ==
    /\ pkpc = "src_walk" /\ wi <= Len(walk)
    /\ LET f == walk[wi]
       IN  IF ~EndsWith(f.fn, SRC_RPM)
           THEN wi' = wi + 1 /\ UNCHANGED <<plFiles, pkpc>>
           ELSE \E ok \in BOOLEAN :
                  IF ok
                  THEN /\ plFiles' = PrintLine(plFiles, NewName(Pkglist("src", FALSE)),
                                               RpmPath(f, <<"src">>))
                       /\ wi' = wi + 1
                       /\ UNCHANGED pkpc
                  ELSE PkFail /\ UNCHANGED <<plFiles, wi>>
    /\ WrittenInPlace
    /\ UNCHANGED <<pkTree, pkArch, walk, plOld>>
    /\ UNCHANGED <<coreVars, chkVars, mirVars, cndVars, links, extVars>>

\* shutil.move(f"{src_pkglist}.new", src_pkglist); then the loop over arches
PkMoveSrc ==
    /\ pkpc = "src_walk" /\ wi > Len(walk)
    /\ \E ok \in BOOLEAN :
          IF ok
          THEN /\ plFiles' = FileMove(plFiles, NewName(Pkglist("src", FALSE)),
                                      Pkglist("src", FALSE))
               /\ Renamed(NewName(Pkglist("src", FALSE)), Pkglist("src", FALSE))
               /\ pkArch' = 1
               /\ pkpc' = IF Len(PkArches) > 0 THEN "arch_open" ELSE "done"
          ELSE PkFail /\ UNCHANGED <<plFiles, pkArch, plLink, relFiles>>
    /\ UNCHANGED <<pkTree, walk, wi, plOld>>
    /\ UNCHANGED <<coreVars, chkVars, mirVars, cndVars, links, extVars>>

\* arch_debug_dir.mkdir(...) and the two open(..., "wt") of the with statement
PkOpenArch ==
    /\ pkpc = "arch_open"
    /\ LET a == PkArches[pkArch]
       IN  \E o \in {"both", "first", "none"} :
             /\ plFiles' =
                  CASE o = "both" ->
                         [plFiles EXCEPT ![NewName(Pkglist(a, FALSE))] = EmptyFile,
                                         ![NewName(Pkglist(a, TRUE))] = EmptyFile]
                    [] o = "first" ->
                         [plFiles EXCEPT ![NewName(Pkglist(a, FALSE))] = EmptyFile]
                    [] OTHER -> plFiles
             /\ IF o = "both"
                THEN /\ walk' = Walk({f \in pkTree : f.top = a})
                     /\ wi' = 1
                     /\ pkpc' = "arch_walk"
                ELSE PkFail /\ UNCHANGED <<walk, wi>>
    /\ WrittenInPlace
    /\ UNCHANGED <<pkTree, pkArch, plOld>>
    /\ UNCHANGED <<coreVars, chkVars, mirVars, cndVars, links, extVars>>

\* The body of the walk over <arch>/Packages, for one file
PkWalkArch ==
    /\ pkpc = "arch_walk" /\ wi <= Len(walk)
    /\ LET f == walk[wi]
           a == PkArches[pkArch]
       IN  IF ~EndsWith(f.fn, RPM)
           THEN wi' = wi + 1 /\ UNCHANGED <<plFiles, pkpc>>
           ELSE \E ok \in BOOLEAN :
                  IF ok
                  THEN /\ plFiles' =
                            IF IsDebugName(f.fn)
                            THEN PrintLine(plFiles, NewName(Pkglist(a, TRUE)),
                                           RpmPath(f, <<a, "debug">>))
                            ELSE PrintLine(plFiles, NewName(Pkglist(a, FALSE)),
                                           RpmPath(f, <<a>>))
                       /\ wi' = wi + 1
                       /\ UNCHANGED pkpc
                  ELSE PkFail /\ UNCHANGED <<plFiles, wi>>
    /\ WrittenInPlace
    /\ UNCHANGED <<pkTree, pkArch, walk, plOld>>
    /\ UNCHANGED <<coreVars, chkVars, mirVars, cndVars, links, extVars>>

\* shutil.move(f"{arch_pkglist}.new", arch_pkglist)
PkMoveArch ==
    /\ pkpc = "arch_walk" /\ wi > Len(walk)
    /\ LET a == PkArches[pkArch]
       IN  \E ok \in BOOLEAN :
             IF ok
             THEN /\ plFiles' = FileMove(plFiles, NewName(Pkglist(a, FALSE)), Pkglist(a, FALSE))
                  /\ Renamed(NewName(Pkglist(a, FALSE)), Pkglist(a, FALSE))
                  /\ pkpc' = "arch_move2"
             ELSE PkFail /\ UNCHANGED <<plFiles, plLink, relFiles>>
    /\ UNCHANGED <<pkTree, pkArch, walk, wi, plOld>>
    /\ UNCHANGED <<coreVars, chkVars, mirVars, cndVars, links, extVars>>

\* shutil.move(f"{arch_debug_pkglist}.new", arch_debug_pkglist); next arch
PkMoveDebug ==
    /\ pkpc = "arch_move2"
    /\ LET a == PkArches[pkArch]
       IN  \E ok \in BOOLEAN :
             IF ok
             THEN /\ plFiles' = FileMove(plFiles, NewName(Pkglist(a, TRUE)), Pkglist(a, TRUE))
                  /\ Renamed(NewName(Pkglist(a, TRUE)), Pkglist(a, TRUE))
                  /\ pkArch' = pkArch + 1
                  /\ pkpc' = IF pkArch < Len(PkArches) THEN "arch_open" ELSE "done"
             ELSE PkFail /\ UNCHANGED <<plFiles, pkArch, plLink, relFiles>>
    /\ UNCHANGED <<pkTree, walk, wi, plOld>>
    /\ UNCHANGED <<coreVars, chkVars, mirVars, cndVars, links, extVars>>

\* ---------------------------------------------- Distrepos._pull_condor_repos
\* The exit statuses of rsync: success, "not found", and any other one.
ExitCodes == {RSYNC_OK, RSYNC_NOT_FOUND, 12}

CndIdle ==
    /\ cArches = 1 /\ cRepos = 0
    /\ cpc = "idle"
    /\ cIdx = 0 /\ cRepo = 0
    /\ cLog = << >>
    /\ cRet = "none"

\* rsync_with_link(src, dst, link, delete=False, recursive=False) for one of
\* the three subtrees, ending with the exit status code
Transfer(kind, code) ==
    cLog' = Append(cLog, [kind |-> kind, idx |-> cIdx, repo |-> cRepo,
                          delete |-> FALSE, code |-> code])

\* raise TagFailure(...)
CndFail ==
    /\ cRet' = "TagFailure"
    /\ cpc' = "done"
    /\ UNCHANGED <<cIdx, cRepo>>

\* The end of the body of the inner loop: the next mapping, the next
\* architecture, or the end of the function.
CndNext ==
    IF cRepo < cRepos
    THEN cRepo' = cRepo + 1 /\ cpc' = "primary" /\ UNCHANGED <<cIdx, cRet>>
    ELSE IF cIdx + 1 < cArches
    THEN cIdx' = cIdx + 1 /\ cRepo' = 1 /\ cpc' = "primary" /\ UNCHANGED cRet
    ELSE cpc' = "done" /\ cRet' = "ok" /\ UNCHANGED <<cIdx, cRepo>>

\* The head of the two loops
CndStart ==
    /\ cpc = "start"
    /\ IF cRepos > 0
       THEN cRepo' = 1 /\ cpc' = "primary" /\ UNCHANGED cRet
       ELSE cpc' = "done" /\ cRet' = "ok" /\ UNCHANGED cRepo
    /\ UNCHANGED <<cArches, cRepos, cIdx, cLog>>
    /\ UNCHANGED <<coreVars, chkVars, mirVars, pkVars, links, extVars>>

\* "First, pull the main (binary) RPMs": if not ok: raise TagFailure
CndPrimary ==
    /\ cpc = "primary"
    /\ \E code \in ExitCodes :
          /\ Transfer("primary", code)
          /\ IF code = RSYNC_OK
             THEN cpc' = "debug" /\ UNCHANGED <<cIdx, cRepo, cRet>>
             ELSE CndFail
    /\ UNCHANGED <<cArches, cRepos>>
    /\ UNCHANGED <<coreVars, chkVars, mirVars, pkVars, links, extVars>>

CndDebug_everyarch ==
    /\ cpc = "debug"
    /\ \E code \in ExitCodes :
          /\ Transfer("debug", code)
          /\ IF code \notin {RSYNC_OK, RSYNC_NOT_FOUND}
             THEN CndFail
             ELSE cpc' = "srpms" /\ UNCHANGED <<cIdx, cRepo, cRet>>
    /\ UNCHANGED <<cArches, cRepos>>
    /\ UNCHANGED <<coreVars, chkVars, mirVars, pkVars, links, extVars>>

\* "Next pull the debuginfo RPMs": returncode not in {RSYNC_OK,
\* RSYNC_NOT_FOUND} raises TagFailure; then "if idx == 0" chooses the SRPMS
CndDebug ==
    /\ cpc = "debug"
    /\ \E code \in ExitCodes :
          /\ Transfer("debug", code)
          /\ IF code \notin {RSYNC_OK, RSYNC_NOT_FOUND}
             THEN CndFail
             ELSE IF cIdx = 0
             THEN cpc' = "srpms" /\ UNCHANGED <<cIdx, cRepo, cRet>>
             ELSE CndNext
    /\ UNCHANGED <<cArches, cRepos>>
    /\ UNCHANGED <<coreVars, chkVars, mirVars, pkVars, links, extVars>>

\* "Finally pull the SRPMs": if not ok: raise TagFailure
CndSrpms ==
    /\ cpc = "srpms"
    /\ \E code \in ExitCodes :
          /\ Transfer("srpms", code)
          /\ IF code = RSYNC_OK THEN CndNext ELSE CndFail
    /\ UNCHANGED <<cArches, cRepos>>
    /\ UNCHANGED <<coreVars, chkVars, mirVars, pkVars, links, extVars>>

\* ------------------------------------------ Distrepos._create_compat_symlink
Labels == 1..(MaxGen + 1)

LnkIdle == links = [g \in Labels |-> "none"]

\* os.symlink(working_path / "src", working_path / "source/SRPMS"): the text
\* of the link is the path of src below the working root
LinkText == "working_path/src"

\* _create_compat_symlink(working_path), on the tree that the transfer built
\* for tag t; an OSError becomes TagFailure and leaves no link
CreateCompatSymlink(t) ==
    /\ \A p \in Rotators : rpc[p] = "idle"
    /\ IsSnapshot(working[t])
    /\ links[working[t][1]] = "none"
    /\ \E ok \in BOOLEAN :
          links' = IF ok THEN [links EXCEPT ![working[t][1]] = LinkText] ELSE links
    /\ UNCHANGED <<coreVars, chkVars, mirVars, pkVars, cndVars, extVars>>

\* What source/SRPMS of the released tree of tag t leads to.
ReleasedSrpms(t) ==
    LET text == links[released[t][1]]
    IN  IF text = "none" THEN "none"
        ELSE IF text = LinkText
        THEN IF Exists(working[t]) THEN "working/src" ELSE "dangling"
        ELSE "released/src"

\* ------------------------------------------------------ create_mirrorlists
CmlProcs == 1..(NLockProcs - 1)
CmlStart == [p \in CmlProcs |-> [pc |-> "idle", dir |-> FALSE, ret |-> "none"]]
CmlIdle == cml = CmlStart

\* The call is over: what it returned, or the exception that left it.
CmlEnd(p, how) == cml' = [cml EXCEPT ![p].pc = "returned", ![p].ret = how]
CmlGoto(p, pc) == cml' = [cml EXCEPT ![p].pc = pc]

\* lock_fh = None; lock_path = ""; if options.lock_dir: ... ; try: pass
CmlCall(p) ==
    /\ cml[p].pc \in {"idle", "returned"}
    /\ lock.pc[p] = "idle"
    /\ \E d \in BOOLEAN :
          cml' = [cml EXCEPT ![p] = [pc |-> IF d THEN "open" ELSE "release",
                                     dir |-> d, ret |-> "none"]]
    /\ UNCHANGED <<coreVars, oldAux, notCml>>

\* os.makedirs(options.lock_dir, exist_ok=True); acquire_lock: filehandle =
\* open(lock_path, "w"); except OSError: return False, msg
CmlOpen(p) ==
    /\ cml[p].pc = "open"
    /\ \/ /\ CanOpen(lock)
          /\ lock' = LockOpen(lock, p)
          /\ CmlGoto(p, "flock")
       \/ /\ UNCHANGED lock
          /\ CmlEnd(p, "(False, msg)")
    /\ UNCHANGED <<disk, rotCtl, runVars, oldAux, notCml>>

\* acquire_lock: flock; if not lock_fh: return False, msg; try: pass
CmlFlock(p) ==
    /\ cml[p].pc = "flock"
    /\ lock' = LockFlock(lock, p)
    /\ IF lock'.res[p] = "None"
       THEN CmlEnd(p, "(False, msg)")
       ELSE CmlGoto(p, "release")
    /\ UNCHANGED <<disk, rotCtl, runVars, oldAux, notCml>>

\* finally: release_lock(lock_fh, lock_path): nothing without a handle, else
\* unlock and close; the function ends without a return statement
CmlUnlockClose(p) ==
    /\ cml[p].pc = "release"
    /\ IF lock.pc[p] = "held"
       THEN /\ lock' = LockUnlockClose(lock, p)
            /\ CmlGoto(p, "unlink")
       ELSE /\ UNCHANGED lock
            /\ CmlEnd(p, "None")
    /\ UNCHANGED <<disk, rotCtl, runVars, oldAux, notCml>>

\* release_lock: os.unlink(lock_path); the function ends without a return statement
CmlUnlink(p) ==
    /\ cml[p].pc = "unlink"
    /\ lock' = LockUnlink(lock, p)
    /\ IF lock'.res[p] = "FileNotFoundError"
       THEN CmlEnd(p, "FileNotFoundError")
       ELSE CmlEnd(p, "None")
    /\ UNCHANGED <<disk, rotCtl, runVars, oldAux, notCml>>

\* ------------------------------------- run_one_tag: the 'latest' pointer
\* The directories of one tag on the build hub; 'latest' is a link to one of
\* them, and LATEST stands for the name 'latest' itself in a URL.
Dirs == 1..NDirs
LATEST == 0

\* os.readlink(destpath): the text of the downloaded link, a path
Readlink(target) == <<target>>

\* os.path.basename(path): the last component
Basename(path) == path[Len(path)]

\* source_url = f"{self.koji_rsync}/{tag.source}/{latest_dir}/"
SourceUrl_live(latest_dir) == [source |-> "tag.source", dir |-> LATEST]

SourceUrl(latest_dir) == [source |-> "tag.source", dir |-> latest_dir]

\* The directory the remote side serves for a URL at the time of a read.
Served(url, target) == IF url.dir = LATEST THEN target ELSE url.dir

NoUrl == [source |-> "none", dir |-> LATEST]

LtIdle ==
    /\ ltUp = 1
    /\ ltpc = "idle"
    /\ ltDir = 0
    /\ ltUrl = NoUrl
    /\ ltReads = << >>
    /\ ltResolves = 0

\* The build hub finishes another dist-repo and repoints 'latest'.
RemoteUpdate ==
    /\ ltpc # "idle"
    /\ \E d \in Dirs \ {ltUp} : ltUp' = d
    /\ UNCHANGED <<ltpc, ltDir, ltUrl, ltReads, ltResolves>>
    /\ UNCHANGED <<coreVars, oldAux, notLt>>

\* _get_latest_dir: rsync -l .../latest destpath with timeout=180; not ok or
\* TimeoutExpired -> TagFailure; return os.path.basename(os.readlink(destpath))
LtResolve ==
    /\ ltpc = "resolve"
    /\ \E o \in {"ok", "failed", "timeout"} :
          IF o = "ok"
          THEN /\ ltDir' = Basename(Readlink(ltUp))
               /\ ltResolves' = ltResolves + 1
               /\ ltpc' = "url"
          ELSE /\ ltpc' = "TagFailure"
               /\ UNCHANGED <<ltDir, ltResolves>>
    /\ UNCHANGED <<ltUp, ltUrl, ltReads>>
    /\ UNCHANGED <<coreVars, oldAux, notLt>>

LtSourceUrl ==
    /\ ltpc = "url"
    /\ ltUrl' = SourceUrl(ltDir)
    /\ ltpc' = "transfer"
    /\ UNCHANGED <<ltUp, ltDir, ltReads, ltResolves>>
    /\ UNCHANGED <<coreVars, oldAux, notLt>>

\* _rsync_one_tag(source_url=source_url, ...): the transfer reads the files
\* under the URL one part at a time
LtTransfer ==
    /\ ltpc = "transfer"
    /\ \/ /\ Len(ltReads) < MaxParts
          /\ ltReads' = Append(ltReads, Served(ltUrl, ltUp))
          /\ UNCHANGED ltpc
       \/ /\ ltpc' = IF Len(ltReads) = MaxParts THEN "done" ELSE "TagFailure"
          /\ UNCHANGED ltReads
    /\ UNCHANGED <<ltUp, ltDir, ltUrl, ltResolves>>
    /\ UNCHANGED <<coreVars, oldAux, notLt>>

\* ------------------------ _create_compat_symlink and what it finds on disk
\* source/SRPMS in the working tree is "absent", a real "dir" or a "symlink"
\* with the text working_path/src; csSrc tells whether working_path/src exists.
PathKinds == {"absent", "dir", "symlink"}

\* Path.exists() follows symbolic links
PathExists(kind, src) == kind = "dir" \/ (kind = "symlink" /\ src)

\* What the path looked like to the caller: a symlink whose target is missing
\* is dangling.
PriorState(kind, src) == IF kind = "symlink" /\ ~src THEN "dangling" ELSE kind

CsIdle ==
    /\ csPath = "absent"
    /\ csSrc = FALSE
    /\ cspc = "idle"
    /\ csPrior = << >>
    /\ csRets = << >>
    /\ csIoErr = FALSE

CsEnd(how) ==
    /\ cspc' = "idle"
    /\ csRets' = Append(csRets, how)

CsCall ==
    /\ cspc = "idle"
    /\ Len(csRets) < MaxRuns
    /\ cspc' = "mkdir"
    /\ csPrior' = Append(csPrior, PriorState(csPath, csSrc))
    /\ UNCHANGED <<csPath, csSrc, csRets, csIoErr>>
    /\ UNCHANGED <<coreVars, oldAux, notCs>>

\* (working_path / "source").mkdir(parents=True, exist_ok=True); OSError -> TagFailure
CsMkdir ==
    /\ cspc = "mkdir"
    /\ \/ /\ cspc' = "exists"
          /\ UNCHANGED <<csRets, csIoErr>>
       \/ /\ CsEnd("TagFailure")
          /\ csIoErr' = TRUE
    /\ UNCHANGED <<csPath, csSrc, csPrior>>
    /\ UNCHANGED <<coreVars, oldAux, notCs>>

\* if (working_path / "source/SRPMS").exists():
CsExists ==
    /\ cspc = "exists"
    /\ cspc' = IF PathExists(csPath, csSrc) THEN "rmtree" ELSE "symlink"
    /\ UNCHANGED <<csPath, csSrc, csPrior, csRets, csIoErr>>
    /\ UNCHANGED <<coreVars, oldAux, notCs>>

\* shutil.rmtree(working_path / "source/SRPMS"): refuses a symbolic link with
\* OSError; removes a directory unless an I/O error stops it
CsRmtree ==
    /\ cspc = "rmtree"
    /\ IF csPath = "symlink"
       THEN /\ CsEnd("TagFailure")
            /\ UNCHANGED <<csPath, csIoErr>>
       ELSE \/ /\ csPath' = "absent"
               /\ cspc' = "symlink"
               /\ UNCHANGED <<csRets, csIoErr>>
            \/ /\ CsEnd("TagFailure")
               /\ csIoErr' = TRUE
               /\ UNCHANGED csPath
    /\ UNCHANGED <<csSrc, csPrior>>
    /\ UNCHANGED <<coreVars, oldAux, notCs>>

\* os.symlink(working_path / "src", working_path / "source/SRPMS"):
\* FileExistsError when the path is there, be it a dangling link
CsSymlink ==
    /\ cspc = "symlink"
    /\ IF csPath # "absent"
       THEN /\ CsEnd("TagFailure")
            /\ UNCHANGED <<csPath, csIoErr>>
       ELSE \/ /\ csPath' = "symlink"
               /\ CsEnd("ok")
               /\ UNCHANGED csIoErr
            \/ /\ CsEnd("TagFailure")
               /\ csIoErr' = TRUE
               /\ UNCHANGED csPath
    /\ UNCHANGED <<csSrc, csPrior>>
    /\ UNCHANGED <<coreVars, oldAux, notCs>>

\* ------------------------------------------ rsync_with_link, rsync_exists
\* link_path as the caller gives it: None, a path that is not on disk, or a
\* path that is
LinkPaths == {"None", "missing", "exists"}

RwInputs == [delete : BOOLEAN, recursive : BOOLEAN, link : LinkPaths]

\* The argument list that rsync_with_link hands to rsync()
RsyncWithLinkArgs(in) ==
    <<"--times", "--stats">>
        \o (IF in.delete THEN <<"--delete">> ELSE << >>)
        \o (IF in.recursive THEN <<"--recursive">>
            ELSE IF in.delete THEN <<"--dirs">> ELSE << >>)
        \o (IF in.link = "exists" THEN <<"--link-path=link_path">> ELSE << >>)
        \o <<"source_url", "dest_path">>

\* The exit statuses of rsync that the model tells apart: success, source
\* not found, usage error, protocol error, timeout in data transfer
RsyncStatuses == {RSYNC_OK, RSYNC_NOT_FOUND, 1, 12, 30}

\* rsync_exists: True on 0, False on 23, else "pass", that is the function
\* returns None
RsyncExists(code) ==
    IF code = 0 THEN "True"
    ELSE IF code = 23 THEN "False"
    ELSE "None"

RsIdle ==
    /\ rwIn = [delete |-> TRUE, recursive |-> TRUE, link |-> "None"]
    /\ rwArgs = << >>
    /\ rxCode = RSYNC_OK
    /\ rxRet = "none"

\* One call of rsync_with_link
RwCall ==
    /\ rwArgs = << >>
    /\ rwArgs' = RsyncWithLinkArgs(rwIn)
    /\ UNCHANGED <<rwIn, rxCode, rxRet>>
    /\ UNCHANGED <<coreVars, oldAux, notRs>>

\* One call of rsync_exists, the listing ending with status rxCode
RxCall ==
    /\ rxRet = "none"
    /\ rxRet' = RsyncExists(rxCode)
    /\ UNCHANGED <<rwIn, rwArgs, rxCode>>
    /\ UNCHANGED <<coreVars, oldAux, notRs>>

\* ------------------------------------------------ get_mirror_info_for_arch
\* Architecture names: those of tag.arches and those a host serves
ArchNames == {"x86_64", "aarch64", "x86_64_v2"}

\* options.arch_mappings: per name of tag.arches the served name, or "none"
\* when the table has no entry
ArchMappings == [ArchNames -> {"none", "x86_64", "arm64"}]

\* tag.arch_rpms_mirror_base: a path with a $ARCH placeholder, absolute or not
MirrorTemplates ==
    {[abs |-> a, parts |-> q] : a \in BOOLEAN,
                                q \in {<<"osg", "$ARCH">>, <<"osg", "$ARCH", "release">>}}

\* string.Template(template).safe_substitute({"ARCH": arch})
SafeSubstitute(tmpl, arch) ==
    [abs |-> tmpl.abs,
     parts |-> [i \in 1..Len(tmpl.parts) |->
                   IF tmpl.parts[i] = "$ARCH" THEN arch ELSE tmpl.parts[i]]]

\* os.path.join(a, b): an absolute b replaces a
OsPathJoin(a, b) ==
    IF b.abs THEN [host |-> 0, parts |-> b.parts]
    ELSE [host |-> a.host, parts |-> a.parts \o b.parts]

\* get_mirror_info_for_arch(hostname, tag, arch); the function has no access
\* to options.arch_mappings
GetMirrorInfoForArch(hostname, tmpl, arch) ==
    LET path_arch == SafeSubstitute(tmpl, arch)
        mirror_base == OsPathJoin([host |-> hostname, parts |-> << >>], path_arch)
        repomd_url == OsPathJoin(mirror_base,
                          [abs |-> FALSE, parts |-> <<"repodata", "repomd.xml">>])
    IN  [base |-> mirror_base, url |-> repomd_url]

NoInfo == [base |-> [host |-> 0, parts |-> << >>], url |-> [host |-> 0, parts |-> << >>]]

MiIdle ==
    /\ miIn = [host |-> 1, tmpl |-> [abs |-> FALSE, parts |-> <<"osg", "$ARCH">>],
               arch |-> "x86_64", map |-> [a \in ArchNames |-> "none"]]
    /\ miOut = NoInfo

\* The call made by update_mirrors_for_tag for one host and one architecture
\* of tag.arches
MiCall ==
    /\ miOut = NoInfo
    /\ miOut' = GetMirrorInfoForArch(miIn.host, miIn.tmpl, miIn.arch)
    /\ UNCHANGED miIn
    /\ UNCHANGED <<coreVars, oldAux, notMi>>

\* ------------------------------------------------------------ parse_config
\* A path string: whether it starts with "/", its components (each a sequence
\* of pieces, so that a suffix can be added to the last one) and whether it
\* ends with "/".  Str("") is the empty string, also standing for an option
\* or argument that is not given.
Str(abs, parts, slash) == [abs |-> abs, parts |-> parts, slash |-> slash]
EmptyStr == Str(FALSE, << >>, FALSE)

DEFAULT_DESTROOT == Str(TRUE, <<<<"var">>, <<"www">>, <<"repo">>>>, FALSE)

RootStrings ==
    {EmptyStr,
     Str(TRUE, << >>, FALSE),
     Str(TRUE, <<<<"srv">>>>, FALSE),
     Str(TRUE, <<<<"srv">>, <<"repo">>>>, FALSE),
     Str(TRUE, <<<<"srv">>, <<"repo">>>>, TRUE),
     Str(TRUE, <<<<"srv">>, <<"repo">>, <<"work">>>>, FALSE),
     Str(TRUE, <<<<"srv">>, <<"repo", ".working">>>>, FALSE)}

\* s.rstrip("/"): "/" alone becomes the empty string
Rstrip(s) == IF s.parts = << >> THEN EmptyStr ELSE [s EXCEPT !.slash = FALSE]

\* s + suffix, for a string without a trailing "/"
AddSuffix(s, suffix) ==
    IF s.parts = << >>
    THEN Str(s.abs, <<<<suffix>>>>, FALSE)
    ELSE [s EXCEPT !.parts[Len(s.parts)] = Append(@, suffix)]

\* options_section.get(key, fallback)
OptionGet(value, fallback) == IF value = EmptyStr THEN fallback ELSE value

\* Path(s): a trailing "/" is dropped
PathOf(s) == [abs |-> s.abs, parts |-> s.parts]

\* The three roots parse_config hands to Distrepos, which keeps them as Paths
ParseConfig(in) ==
    IF in.destroot # EmptyStr
    THEN LET dest_root == Rstrip(in.destroot)
         IN  [done |-> TRUE, dest |-> PathOf(dest_root),
              working |-> PathOf(AddSuffix(dest_root, ".working")),
              previous |-> PathOf(AddSuffix(dest_root, ".previous"))]
    ELSE LET dest_root == Rstrip(OptionGet(in.dest_root, DEFAULT_DESTROOT))
         IN  [done |-> TRUE, dest |-> PathOf(dest_root),
              working |-> PathOf(OptionGet(in.working_root, AddSuffix(dest_root, ".working"))),
              previous |-> PathOf(OptionGet(in.previous_root, AddSuffix(dest_root, ".previous")))]

NoRoots == [done |-> FALSE]

CfgIdle ==
    /\ cfgIn = [destroot |-> EmptyStr, dest_root |-> EmptyStr,
                working_root |-> EmptyStr, previous_root |-> EmptyStr]
    /\ cfgOut = NoRoots

CfgCall ==
    /\ ~cfgOut.done
    /\ cfgOut' = ParseConfig(cfgIn)
    /\ UNCHANGED cfgIn
    /\ UNCHANGED <<coreVars, oldAux, notCfg>>

\* --------------------------------------------------------- link_static_data
\* The names an entry of the static source or of the destination can have,
\* and what the destination directory holds under a name: nothing, an entry
\* that is not a symlink, a symlink whose target exists, a symlink into the
\* static source whose target is gone, any other symlink whose target is gone.
Names == 1..NNames
EntryKinds == {"absent", "entry", "link", "decayed", "dangling"}

\* lsIn.root     options.static_root: not set, a relative or an absolute path
\* lsIn.inside   static_root/repo_name lies under dest_root/repo_name
\* lsIn.src      static_root/repo_name exists
\* lsIn.dst      dest_root/repo_name exists
\* lsIn.static   the names of the entries of static_root/repo_name
NoStatic == [root |-> "none", inside |-> FALSE, src |-> FALSE, dst |-> FALSE, static |-> {}]

LsIdle ==
    /\ lsIn = NoStatic
    /\ lsDst = [n \in Names |-> "absent"]
    /\ lsOld = [n \in Names |-> "absent"]
    /\ lsCtl = [pc |-> "idle", i |-> 0, ret |-> "none"]

\* The call is over: what it returned, or the exception that left it.
LsEnd(how) == lsCtl' = [lsCtl EXCEPT !.pc = "returned", !.ret = how]

\* The checks before the loops, and data_dst.mkdir(parents=False)
LsCall ==
    /\ lsCtl.pc = "start"
    /\ IF lsIn.root = "none" THEN LsEnd("(True, '')")
       ELSE IF lsIn.root = "relative" THEN LsEnd("(False, msg)")
       ELSE IF ~lsIn.src THEN LsEnd("(False, msg)")
       ELSE IF ~lsIn.dst
       THEN \E ok \in BOOLEAN :
              IF ok THEN lsCtl' = [lsCtl EXCEPT !.pc = "clear"] ELSE LsEnd("OSError")
       ELSE lsCtl' = [lsCtl EXCEPT !.pc = "clear"]
    /\ UNCHANGED <<lsIn, lsDst, lsOld>>
    /\ UNCHANGED <<coreVars, oldAux, notLs>>

\* for pth in data_dst.iterdir(): unlink the decayed symlinks into static_src
LsClear ==
    /\ lsCtl.pc = "clear"
    /\ lsDst' = [n \in Names |-> IF lsDst[n] = "decayed" THEN "absent" ELSE lsDst[n]]
    /\ lsCtl' = [lsCtl EXCEPT !.pc = "link", !.i = 1]
    /\ UNCHANGED <<lsIn, lsOld>>
    /\ UNCHANGED <<coreVars, oldAux, notLs>>

\* dest.exists() follows a symlink; dest.is_symlink() does not
DestExists(kind) == kind \in {"entry", "link"}
DestIsSymlink(kind) == kind \in {"link", "decayed", "dangling"}

\* pth.relative_to(dest.parent): ValueError unless pth is under dest.parent
RelativeTo(inside) == IF inside THEN "relative path" ELSE "ValueError"

\* dest.symlink_to(target): FileExistsError when the name is taken
SymlinkTo(kind) == IF kind = "absent" THEN "link" ELSE "FileExistsError"

\* One round of for pth in static_src.iterdir(), for the entry named lsCtl.i
\* (a name without an entry in the static source is passed over), and the
\* return after the loop.
LsLink ==
    /\ lsCtl.pc = "link"
    /\ LET n == lsCtl.i
       IN  IF n > NNames THEN LsEnd("(True, '')") /\ UNCHANGED lsDst
           ELSE IF n \notin lsIn.static
           THEN lsCtl' = [lsCtl EXCEPT !.i = n + 1] /\ UNCHANGED lsDst
           ELSE IF DestExists(lsDst[n]) /\ ~DestIsSymlink(lsDst[n])
           THEN LsEnd("(False, msg)") /\ UNCHANGED lsDst
           ELSE LET kind == IF DestExists(lsDst[n]) /\ DestIsSymlink(lsDst[n])
                            THEN "absent" ELSE lsDst[n]
                IN  IF RelativeTo(lsIn.inside) = "ValueError"
                    THEN /\ lsDst' = [lsDst EXCEPT ![n] = kind]
                         /\ LsEnd("ValueError")
                    ELSE IF SymlinkTo(kind) = "FileExistsError"
                    THEN /\ lsDst' = [lsDst EXCEPT ![n] = kind]
                         /\ LsEnd("FileExistsError")
                    ELSE /\ lsDst' = [lsDst EXCEPT ![n] = "link"]
                         /\ lsCtl' = [lsCtl EXCEPT !.i = n + 1]
    /\ UNCHANGED <<lsIn, lsOld>>
    /\ UNCHANGED <<coreVars, oldAux, notLs>>

\* ------------------------------------------------------ link_latest_release
\* An rpm file under <series_root>/<dver>/release: the architecture directory
\* it is in, its name up to the version (a sequence of pieces) and the number
\* in the first "-<digits>.osg" of its name (0: the name has none, or 0).
RELEASE_RPM == <<"osg-release">>
Dvers == <<"el8", "el9">>
BaseArch == "x86_64"
ReleaseFiles ==
    [arch : {BaseArch}, pkg : {RELEASE_RPM, RELEASE_RPM \o <<"-itb">>}, rel : 0..MaxRelNum]
        \cup [arch : {"aarch64"}, pkg : {RELEASE_RPM}, rel : 0..MaxRelNum]
ReleaseTrees == {t \in SUBSET ReleaseFiles : Cardinality(t) <= MaxRpms}

\* _get_release_number
GetReleaseNumber(rpm) == rpm.rel

\* name matches f"{RELEASE_RPM}*"
StartsWith(name, prefix) ==
    Len(name) >= Len(prefix) /\ SubSeq(name, 1, Len(prefix)) = prefix

\* rglob(f"release/{base_arch}/**/{RELEASE_RPM}*") filtered by the release number
ReleaseRpms(tree) ==
    {rpm \in tree : /\ rpm.arch = BaseArch
                    /\ StartsWith(rpm.pkg, RELEASE_RPM)
                    /\ GetReleaseNumber(rpm) > 0}

\* release_rpms.sort(key=_get_release_number, reverse=True); release_rpms[0]:
\* an rpm with the greatest number (which one of several depends on the order
\* in which rglob found them)
Latest(rpms) ==
    {rpm \in rpms : \A other \in rpms : GetReleaseNumber(other) <= GetReleaseNumber(rpm)}

NoLink == [arch |-> "none", pkg |-> << >>, rel |-> 0]

LlIdle ==
    /\ llTree = [d \in DOMAIN Dvers |-> {}]
    /\ llLink = [d \in DOMAIN Dvers |-> NoLink]
    /\ llCtl = [pc |-> "idle", d |-> 0, ret |-> "none"]

\* One round of for dver in series.dvers
LlDver ==
    /\ llCtl.pc = "loop" /\ llCtl.d <= Len(Dvers)
    /\ LET release_rpms == ReleaseRpms(llTree[llCtl.d])
       IN  IF release_rpms = {}
           THEN /\ llCtl' = [llCtl EXCEPT !.pc = "returned", !.ret = "(False, msg)"]
                /\ UNCHANGED llLink
           ELSE /\ \E rpm \in Latest(release_rpms) :
                      llLink' = [llLink EXCEPT ![llCtl.d] = rpm]
                /\ llCtl' = [llCtl EXCEPT !.d = @ + 1]
    /\ UNCHANGED llTree
    /\ UNCHANGED <<coreVars, oldAux, notLl>>

\* return True, ""
LlReturn ==
    /\ llCtl.pc = "loop" /\ llCtl.d > Len(Dvers)
    /\ llCtl' = [llCtl EXCEPT !.pc = "returned", !.ret = "(True, '')"]
    /\ UNCHANGED <<llTree, llLink>>
    /\ UNCHANGED <<coreVars, oldAux, notLl>>

\* --------------------------------------------------------- specifications
\* The parts of the model that a specification does not exercise stay idle.
Ext1Idle == CmlIdle /\ LtIdle /\ CsIdle /\ RsIdle
Ext2Idle == MiIdle /\ CfgIdle /\ LsIdle /\ LlIdle
ExtIdle == Ext1Idle /\ Ext2Idle
AuxIdle == ChkIdle /\ MirIdle /\ PkIdle /\ CndIdle /\ LnkIdle /\ ExtIdle

\* Any disk state a tag can be in when a run starts.
DiskAny ==
    /\ working \in [Tags -> {Absent, EmptyDir, <<3>>}]
    /\ released \in [Tags -> {Absent, <<2>>}]
    /\ previous \in [Tags -> {Absent, <<1>>}]
    /\ gen = 4

DiskNone ==
    /\ working = [t \in Tags |-> Absent]
    /\ released = [t \in Tags |-> Absent]
    /\ previous = [t \in Tags |-> Absent]
    /\ gen = 4

\* The batch: main of bin/distrepos.py.
Init == DiskAny /\ RotIdle /\ lock = LockStart /\ RunStart /\ AuxIdle

Next ==
    \/ CheckRsync
    \/ MakeWorkingDir
    \/ GetLatestDir
    \/ RsyncOneTag
    \/ PullCondorRepos
    \/ UpdatePkglistFiles
    \/ RunCreaterepo
    \/ Report

Spec == Init /\ [][Next]_vars

\* The batch of the package: main of distrepos/__main__.py, every tag's
\* pipeline taken as one step with its result.
NextMain ==
    \/ CheckRsync
    \/ MainRunOneTag
    \/ Report

InitMain == DiskNone /\ RotIdle /\ lock = LockStart /\ RunStart /\ AuxIdle

SpecMain == InitMain /\ [][NextMain]_vars

\* _update_release_repos called again and again on the three trees of one
\* tag, one call at a time, a new working tree being built between the calls.
RotTags == {1}

InitRotate ==
    /\ DiskAny
    /\ \A t \in Tags \ RotTags :
          working[t] = Absent /\ released[t] = Absent /\ previous[t] = Absent
    /\ RotIdle /\ lock = LockStart /\ RunStart /\ AuxIdle

NextRotate ==
    \/ \E t \in RotTags : RCall(1, t)
    \/ \E p \in Rotators : RCheckWorking(p)
    \/ \E p \in Rotators : RCheckPrevious(p)
    \/ \E p \in Rotators : RRmPrevious(p)
    \/ \E p \in Rotators : RMkPreviousParent(p)
    \/ \E p \in Rotators : RCheckRelease(p)
    \/ \E p \in Rotators : RMvRelease(p)
    \/ \E p \in Rotators : RMkReleaseParent(p)
    \/ \E p \in Rotators : RMvWorking(p)
    \/ \E p \in Rotators : RCheckRollback(p)
    \/ \E p \in Rotators : RRollback(p)
    \/ \E p \in Rotators : RReturn(p)
    \/ \E t \in RotTags : Populate(t)

SpecRotate == InitRotate /\ [][NextRotate]_vars

\* Two invocations of _update_release_repos on the trees of the same tag, both
\* started before either has taken a step, their steps interleaved in every
\* order.
NextOverlap ==
    \/ \E p \in Rotators, t \in RotTags :
          /\ \A q \in Rotators : rpc[q] \in {"idle", "check_working"}
          /\ RCall(p, t)
    \/ \E p \in Rotators : RCheckWorking(p)
    \/ \E p \in Rotators : RCheckPrevious(p)
    \/ \E p \in Rotators : RRmPrevious(p)
    \/ \E p \in Rotators : RMkPreviousParent(p)
    \/ \E p \in Rotators : RCheckRelease(p)
    \/ \E p \in Rotators : RMvRelease(p)
    \/ \E p \in Rotators : RMkReleaseParent(p)
    \/ \E p \in Rotators : RMvWorking(p)
    \/ \E p \in Rotators : RCheckRollback(p)
    \/ \E p \in Rotators : RRollback(p)

SpecOverlap == InitRotate /\ [][NextOverlap]_vars

\* test_single_mirror on every combination of responses and clock offsets.
InitMirrorCheck ==
    /\ DiskNone /\ RotIdle /\ lock = LockStart /\ RunStart /\ MirIdle /\ PkIdle /\ CndIdle /\ LnkIdle /\ ExtIdle
    /\ chkResp \in Responses
    /\ tz \in TzOffsets
    /\ chkResult = "none"

NextMirrorCheck == MirrorCheck

SpecMirrorCheck == InitMirrorCheck /\ [][NextMirrorCheck]_vars

\* One call of update_mirrors_for_tag, for any configured extra hosts and any
\* mirror-list directories left by earlier calls.
InitMirror ==
    /\ DiskNone /\ RotIdle /\ lock = LockStart /\ RunStart /\ ChkIdle /\ PkIdle /\ CndIdle /\ LnkIdle /\ ExtIdle
    /\ mirExtras \in SeqsUpTo(Hosts, MaxExtras)
    /\ mirpc = "hosts"
    /\ mirArch = 1
    /\ mirHost = 1
    /\ good = << >>
    /\ mirAcc = [a \in 1..Len(MirArches) |-> << >>]
    /\ mirRet = "none"
    /\ mirWork \in {NoMirDir, OldMirDir(0)}
    /\ mirRel \in {NoMirDir, OldMirDir(0)}
    /\ mirPrev \in {NoMirDir, OldMirDir(-1)}
    /\ mirDisk0 = [r |-> mirRel, v |-> mirPrev]
    /\ mirRotations = 0

NextMirror ==
    \/ MirTestHost
    \/ MirWriteArch
    \/ MirRotate

SpecMirror == InitMirror /\ [][NextMirror]_vars

\* One call of _update_pkglist_files on any working tree of at most MaxFiles
\* files, the list files of an earlier build and the leftovers of an earlier
\* interrupted call being there or not.
InitPkglist ==
    /\ DiskNone /\ RotIdle /\ lock = LockStart /\ RunStart /\ ChkIdle /\ MirIdle /\ CndIdle /\ LnkIdle /\ ExtIdle
    /\ pkTree \in SubsetsUpTo(PkFile, MaxFiles)
    /\ pkpc = "start"
    /\ pkArch = 0
    /\ walk = << >>
    /\ wi = 0
    /\ \E old \in {NoFile, OldFile}, left \in {NoFile, OldFile} :
          plFiles = [l \in PlNames |-> IF l.new THEN left ELSE old]
    /\ plOld = [l \in FinalNames |-> plFiles[l]]
    \* the transfer makes hardlinks of the files it finds identical in the
    \* released tree; a ".new" file left by an earlier call was written by
    \* that call, in the working tree
    /\ \E rel \in {NoFile, OldFile}, hard \in BOOLEAN :
          /\ hard => (rel = OldFile /\ \A l \in FinalNames : plFiles[l] = rel)
          /\ relFiles = [l \in FinalNames |-> rel]
          /\ plLink = [l \in PlNames |-> hard /\ ~l.new]

NextPkglist ==
    \/ PkOpenSrc
    \/ PkWalkSrc
    \/ PkMoveSrc
    \/ PkOpenArch
    \/ PkWalkArch
    \/ PkMoveArch
    \/ PkMoveDebug

SpecPkglist == InitPkglist /\ [][NextPkglist]_vars

\* One call of _pull_condor_repos for a tag with any number of architectures
\* and mappings within the bounds.
InitCondor ==
    /\ DiskNone /\ RotIdle /\ lock = LockStart /\ RunStart
    /\ ChkIdle /\ MirIdle /\ PkIdle /\ LnkIdle /\ ExtIdle
    /\ cArches \in 1..NCondorArches
    /\ cRepos \in 0..NCondorRepos
    /\ cpc = "start"
    /\ cIdx = 0 /\ cRepo = 0
    /\ cLog = << >>
    /\ cRet = "none"

NextCondor ==
    \/ CndStart
    \/ CndPrimary
    \/ CndDebug
    \/ CndSrpms

SpecCondor == InitCondor /\ [][NextCondor]_vars

\* The last two steps of run_one_tag on the trees of one tag: the compat link
\* is made in a working tree that a transfer built, then
\* _update_release_repos is called.
NextPublish ==
    \/ \E t \in RotTags : CreateCompatSymlink(t)
    \/ NextRotate

SpecPublish == InitRotate /\ [][NextPublish]_vars

\* Processes calling acquire_lock and release_lock on one lock path, their
\* system calls interleaved.
InitLock == DiskNone /\ RotIdle /\ lock = LockStart /\ RunStart /\ AuxIdle

NextLock ==
    \/ \E p \in LockProcs : LOpen(p)
    \/ \E p \in LockProcs : LFlock(p)
    \/ \E p \in LockProcs : LUnlockClose(p)
    \/ \E p \in LockProcs : LUnlink(p)

SpecLock == InitLock /\ [][NextLock]_vars

\* The same processes when no two calls overlap.
NextLockSeq ==
    \/ \E p \in LockProcs : AcquireLock(p)
    \/ \E p \in LockProcs : ReleaseLock(p)

SpecLockSeq == InitLock /\ [][NextLockSeq]_vars

\* Processes calling create_mirrorlists.
NextCml ==
    \/ \E p \in CmlProcs : CmlCall(p)
    \/ \E p \in CmlProcs : CmlOpen(p)
    \/ \E p \in CmlProcs : CmlFlock(p)
    \/ \E p \in CmlProcs : CmlUnlockClose(p)
    \/ \E p \in CmlProcs : CmlUnlink(p)

SpecCml == InitLock /\ [][NextCml]_vars

\* One tag run from the resolution of 'latest' to the end of the main
\* transfer, while the build hub repoints the link.
InitLatest ==
    /\ DiskNone /\ RotIdle /\ lock = LockStart /\ RunStart
    /\ ChkIdle /\ MirIdle /\ PkIdle /\ CndIdle /\ LnkIdle /\ CmlIdle /\ CsIdle /\ RsIdle /\ Ext2Idle
    /\ ltUp \in Dirs
    /\ ltpc = "resolve"
    /\ ltDir = 0
    /\ ltUrl = NoUrl
    /\ ltReads = << >>
    /\ ltResolves = 0

NextLatest ==
    \/ RemoteUpdate
    \/ LtResolve
    \/ LtSourceUrl
    \/ LtTransfer

SpecLatest == InitLatest /\ [][NextLatest]_vars

\* _create_compat_symlink called again and again on one working tree.
InitCompat ==
    /\ DiskNone /\ RotIdle /\ lock = LockStart /\ RunStart
    /\ ChkIdle /\ MirIdle /\ PkIdle /\ CndIdle /\ LnkIdle /\ CmlIdle /\ LtIdle /\ RsIdle /\ Ext2Idle
    /\ csPath \in PathKinds
    /\ csSrc \in BOOLEAN
    /\ cspc = "idle"
    /\ csPrior = << >>
    /\ csRets = << >>
    /\ csIoErr = FALSE

NextCompat ==
    \/ CsCall
    \/ CsMkdir
    \/ CsExists
    \/ CsRmtree
    \/ CsSymlink

SpecCompat == InitCompat /\ [][NextCompat]_vars

\* The two helpers around rsync(), each called once with any input.
InitRsync ==
    /\ DiskNone /\ RotIdle /\ lock = LockStart /\ RunStart
    /\ ChkIdle /\ MirIdle /\ PkIdle /\ CndIdle /\ LnkIdle /\ CmlIdle /\ LtIdle /\ CsIdle /\ Ext2Idle
    /\ rwIn \in RwInputs
    /\ rwArgs = << >>
    /\ rxCode \in RsyncStatuses
    /\ rxRet = "none"

NextRsync ==
    \/ RwCall
    \/ RxCall

SpecRsync == InitRsync /\ [][NextRsync]_vars

\* get_mirror_info_for_arch called with any host, template, architecture and
\* mapping table.
InitMirrorInfo ==
    /\ DiskNone /\ RotIdle /\ lock = LockStart /\ RunStart
    /\ ChkIdle /\ MirIdle /\ PkIdle /\ CndIdle /\ LnkIdle /\ Ext1Idle /\ CfgIdle /\ LsIdle /\ LlIdle
    /\ miIn \in [host : Hosts, tmpl : MirrorTemplates, arch : ArchNames, map : ArchMappings]
    /\ miOut = NoInfo

NextMirrorInfo == MiCall

SpecMirrorInfo == InitMirrorInfo /\ [][NextMirrorInfo]_vars

\* parse_config called with any --destroot argument and any root options.
InitConfig ==
    /\ DiskNone /\ RotIdle /\ lock = LockStart /\ RunStart
    /\ ChkIdle /\ MirIdle /\ PkIdle /\ CndIdle /\ LnkIdle /\ Ext1Idle /\ MiIdle /\ LsIdle /\ LlIdle
    /\ cfgIn \in [destroot : RootStrings, dest_root : RootStrings,
                  working_root : RootStrings, previous_root : RootStrings]
    /\ cfgOut = NoRoots

NextConfig == CfgCall

SpecConfig == InitConfig /\ [][NextConfig]_vars

\* One call of link_static_data for any configuration, any entries of the
\* static source and any content of the destination directory.
InitStatic ==
    /\ DiskNone /\ RotIdle /\ lock = LockStart /\ RunStart
    /\ ChkIdle /\ MirIdle /\ PkIdle /\ CndIdle /\ LnkIdle /\ Ext1Idle /\ MiIdle /\ CfgIdle /\ LlIdle
    /\ lsIn \in [root : {"none", "relative", "absolute"}, inside : BOOLEAN,
                 src : BOOLEAN, dst : BOOLEAN, static : SUBSET Names]
    /\ (lsIn.root = "none" \/ ~lsIn.src) => (lsIn.static = {} /\ ~lsIn.inside)
    /\ lsDst \in [Names -> EntryKinds]
    /\ ~lsIn.dst => lsDst = [n \in Names |-> "absent"]
    /\ lsOld = lsDst
    /\ lsCtl = [pc |-> "start", i |-> 0, ret |-> "none"]

NextStatic ==
    \/ LsCall
    \/ LsClear
    \/ LsLink

SpecStatic == InitStatic /\ [][NextStatic]_vars

\* One call of link_latest_release for a series of two dvers, for any rpm
\* files in their release trees and any link left by an earlier call.
InitLatestRelease ==
    /\ DiskNone /\ RotIdle /\ lock = LockStart /\ RunStart
    /\ ChkIdle /\ MirIdle /\ PkIdle /\ CndIdle /\ LnkIdle /\ Ext1Idle
    /\ MiIdle /\ CfgIdle /\ LsIdle
    /\ llTree \in [DOMAIN Dvers -> ReleaseTrees]
    /\ \E old \in {NoLink, [arch |-> BaseArch, pkg |-> RELEASE_RPM, rel |-> 1]} :
          llLink = [d \in DOMAIN Dvers |-> old]
    /\ llCtl = [pc |-> "loop", d |-> 1, ret |-> "none"]

NextLatestRelease ==
    \/ LlDver
    \/ LlReturn

SpecLatestRelease == InitLatestRelease /\ [][NextLatestRelease]_vars

\* ------------------------------------------------------------- properties
\* C1: when _update_release_repos returns without raising on a populated
\* working tree, whatever released and previous were, previous holds the
\* pre-call released tree (nothing if there was none), released holds the
\* pre-call working tree, and the working path is gone.
C1_RotatePublishes ==
    \A p \in Rotators :
        (rpc[p] = "done" /\ rret[p] = "ok" /\ IsSnapshot(rpre[p].w)) =>
            /\ previous[rtag[p]] = rpre[p].r
            /\ released[rtag[p]] = rpre[p].w
            /\ working[rtag[p]] = Absent

C1_Witness ==
    \E p \in Rotators :
        /\ rpc[p] = "done" /\ rret[p] = "ok"
        /\ IsSnapshot(rpre[p].w) /\ IsSnapshot(rpre[p].r) /\ IsSnapshot(rpre[p].v)

\* C2: called without a working directory, _update_release_repos raises
\* TagFailure and leaves released and previous as they were.
C2_NoWorkingNoChange ==
    \A p \in Rotators :
        (rpc[p] = "done" /\ rpre[p].w = Absent) =>
            /\ rret[p] = "TagFailure"
            /\ released[rtag[p]] = rpre[p].r
            /\ previous[rtag[p]] = rpre[p].v
            /\ working[rtag[p]] = Absent

C2_Witness ==
    \E p \in Rotators :
        /\ rpc[p] = "done" /\ rpre[p].w = Absent
        /\ IsSnapshot(rpre[p].r) /\ IsSnapshot(rpre[p].v)

\* C3: called with a working directory that exists but is empty,
\* _update_release_repos fails and changes nothing on disk: released is not
\* replaced by the empty tree and previous is not deleted.
C3_EmptyWorkingNoChange ==
    \A p \in Rotators :
        (rpc[p] = "done" /\ rpre[p].w = EmptyDir) =>
            /\ rret[p] # "ok"
            /\ released[rtag[p]] = rpre[p].r
            /\ previous[rtag[p]] = rpre[p].v

BeforeStep5 ==
    {"check_working", "check_previous", "rm_previous", "mk_previous_parent",
     "check_release", "mv_release", "mk_release_parent", "mv_working"}

C5_SnapshotKept ==
    \A p \in Rotators :
        (rpc[p] \in BeforeStep5 /\ (IsSnapshot(rpre[p].r) \/ IsSnapshot(rpre[p].v))) =>
            IsSnapshot(released[rtag[p]]) \/ IsSnapshot(previous[rtag[p]])

\* C6: whatever the interleaving of acquire_lock and release_lock in several
\* processes, no two processes hold a handle for the lock path at once.
C6_MutualExclusion == Cardinality(Holders(lock)) <= 1

\* C7: with calls that do not overlap, acquire_lock returns None at once while
\* another handle is held, and returns a handle when none is held, in
\* particular after release_lock of the first handle.
C7_SecondRefusedThenGranted ==
    [][\A p \in LockProcs :
          (lock.pc[p] = "idle" /\ (lock'.pc[p] # "idle" \/ lock'.res[p] # lock.res[p])) =>
              IF Holders(lock) # {}
              THEN lock'.pc[p] = "idle" /\ lock'.res[p] = "None"
              ELSE lock'.pc[p] = "held" /\ lock'.res[p] = "handle"]_vars

C7_Witness ==
    \E p, q \in LockProcs :
        /\ p # q
        /\ lock.res[q] = "None"
        /\ lock.pc[p] = "held" /\ lock.fd[p] > 1

\* C8: a tag whose pipeline fails at the transfer, the external merge, the
\* package-list rebuild, the metadata generation, the compatibility link or
\* the rotation is recorded as failed, and run goes on to the tags after it.
ListedStages == {"rsync", "condor", "pkglist", "createrepo", "symlink", "rotate"}

C8_StageFailureRecorded ==
    \A t \in Tags :
        failStage[t] \in ListedStages => InSeq(t, failed) /\ tagidx > t

\* C9: a failure or timeout of _get_latest_dir makes the tag a failed tag: it
\* is recorded as failed, run goes on, and no TagFailure leaves run_one_tag.
C9_LatestFailureRecorded ==
    \A t \in Tags :
        failStage[t] = "latest" =>
            InSeq(t, failed) /\ tagidx > t /\ uncaught # "TagFailure"

\* C10: when the first listing of the koji-hub endpoint fails or times out,
\* the process ends with ERR_RSYNC, no tag was started, no working directory
\* was created and no released or previous tree was touched.
C10_ProbeFailureIsFatal ==
    probe \in {"failed", "timeout", "oserror"} =>
        /\ mpc = "exited" /\ exitcode = ERR_RSYNC /\ uncaught = "none"
        /\ tagidx = 0 /\ successful = << >> /\ failed = << >>
        /\ \A t \in Tags : failStage[t] = "none"
        /\ working = disk0.w /\ released = disk0.r /\ previous = disk0.v

C10_Witness ==
    /\ probe = "timeout" /\ mpc = "exited" /\ exitcode = ERR_RSYNC
    /\ \E t \in Tags : working[t] = Absent

\* C11: the exit status is 0 exactly when at least one tag succeeded and none
\* failed; it is ERR_FAILURES whenever at least one tag failed, also when all
\* of them failed; it is ERR_EMPTY only when no tag succeeded and none failed;
\* the four ERR_ codes are pairwise distinct and none of them is 0.
C11_ExitStatus ==
    /\ (mpc = "exited" /\ probe = "ok" /\ uncaught = "none") =>
          /\ (exitcode = 0) <=> (successful # << >> /\ failed = << >>)
          /\ failed # << >> => exitcode = ERR_FAILURES
          /\ exitcode = ERR_EMPTY => (successful = << >> /\ failed = << >>)
    /\ \A succ \in SeqsUpTo(Tags, 1), fail \in SeqsUpTo(Tags, 1) :
          /\ (ExitStatus(succ, fail) = 0) <=> (succ # << >> /\ fail = << >>)
          /\ fail # << >> => ExitStatus(succ, fail) = ERR_FAILURES
          /\ (ExitStatus(succ, fail) = ERR_EMPTY) <=> (succ = << >> /\ fail = << >>)
    /\ Cardinality({ERR_CONFIG, ERR_RSYNC, ERR_FAILURES, ERR_EMPTY, 0}) = 5

C11_Witness ==
    /\ mpc = "exited" /\ probe = "ok"
    /\ exitcode = ERR_FAILURES
    /\ successful = << >>
    /\ Len(failed) = NTags

\* C12: no call to the remote side blocks the run for ever: the run has
\* ended or can take a further step.
C12_EveryRemoteCallReturns == mpc = "exited" \/ ENABLED Next

\* C13: test_single_mirror accepts a host exactly when the metadata request
\* returns 200, the response carries a Last-Modified date that is not older
\* than 24 hours, and the request for the sibling pkglist returns 200; a
\* non-200 metadata status, a stale date, and a pkglist status of 404 or any
\* other non-200 value each make it return False.
C13_AcceptedIffFreshAndMigrated ==
    chkResult # "none" =>
        LET fresh == chkResp.lastmod.hdr = "date" /\ chkResp.lastmod.age <= FRESH_HOURS
            stale == chkResp.lastmod.hdr = "date" /\ chkResp.lastmod.age > FRESH_HOURS
        IN  /\ (chkResult = "True") <=>
                  (chkResp.meta = 200 /\ fresh /\ chkResp.pkglist = 200)
            /\ chkResp.meta \notin {0, 200} => chkResult = "False"
            /\ (chkResp.meta = 200 /\ stale) => chkResult = "False"
            /\ (chkResp.meta = 200 /\ fresh /\ chkResp.pkglist \notin {0, 200}) =>
                  chkResult = "False"

\* C14: a host that answers 200 with a Last-Modified header that cannot be
\* parsed is rejected (test_single_mirror returns False), and
\* update_mirrors_for_tag is never left by the parse error.
C14_UnparseableHeaderRejected == mirRet # "ValueError"

\* Every host of the candidates was checked for architecture a and none accepted.
NoneAccepted(a) ==
    /\ Len(mirAcc[a]) = Len(MirrorHostnames(mirExtras))
    /\ \A i \in 1..Len(mirAcc[a]) : ~mirAcc[a][i]

\* C15: when no host is accepted for some architecture, update_mirrors_for_tag
\* returns (False, msg), update_release_repos is not called, the released and
\* the previous mirror-list directories are as they were before the call, and
\* a published directory never holds a list without lines written by the call.
C15_NoMirrorNoRotation ==
    /\ (mirpc = "done" /\ \E a \in 1..Len(MirArches) : NoneAccepted(a)) =>
          /\ mirRet = "fail"
          /\ mirRotations = 0
          /\ mirRel = mirDisk0.r
          /\ mirPrev = mirDisk0.v
    /\ mirRet = "ok" => \A a \in 1..Len(MirArches) : mirRel.files[a] # << >>

C15_Witness ==
    /\ mirpc = "done" /\ mirRet = "fail"
    /\ NoneAccepted(2)
    /\ mirWork.files[1] # << >>
    /\ mirDisk0.r.there /\ mirDisk0.v.there

\* The mirror_base of the hosts accepted for architecture a, in the order of
\* the candidates.
AcceptedBases(a) ==
    LET c == MirrorHostnames(mirExtras)
        F[i \in 0..Len(c)] ==
            IF i = 0 THEN << >>
            ELSE IF mirAcc[a][i] THEN Append(F[i - 1], MirrorBase(c[i], MirArches[a]))
            ELSE F[i - 1]
    IN  F[Len(c)]

\* C16: the file written for an architecture holds, one per line, the base
\* URLs of exactly the hosts that test_single_mirror accepted, in the order
\* of the candidates: the baseline host first, then options.mirror_hosts in
\* their order; a host appears as often as it is accepted among the candidates.
C16_ListIsAcceptedHostsInOrder ==
    \A a \in 1..Len(MirArches) :
        a < mirArch =>
            /\ Len(mirAcc[a]) = Len(MirrorHostnames(mirExtras))
            /\ MirrorHostnames(mirExtras)[1] = BaselineHost
            /\ (IF mirRet = "ok" THEN mirRel ELSE mirWork).files[a] = AcceptedBases(a)

C16_Witness ==
    /\ mirRet = "ok"
    /\ mirAcc[1] = <<TRUE, FALSE, TRUE>>
    /\ mirAcc[2] = <<FALSE, TRUE, TRUE>>
    /\ mirExtras = <<2, 1>>

\* How a reader of a list finds the file of a line: the path of the line
\* joined to the directory of the list, ".." and "." taken out.
RECURSIVE Norm(_, _)
Norm(stack, rest) ==
    IF rest = << >> THEN stack
    ELSE IF Head(rest) = "." THEN Norm(stack, Tail(rest))
    ELSE IF Head(rest) = ".." /\ stack # << >>
    THEN Norm(SubSeq(stack, 1, Len(stack) - 1), Tail(rest))
    ELSE Norm(Append(stack, Head(rest)), Tail(rest))

ListDir(l) == IF l.debug THEN <<l.top, "debug">> ELSE <<l.top>>
Resolved(l, line) == [dir |-> Norm(<< >>, ListDir(l) \o line.dir), fn |-> line.fn]
Location(f) == [dir |-> <<f.top, "Packages">> \o f.sub, fn |-> f.fn]

\* The list a file of the tree has to be in, by its name.
Last(fn) == fn[Len(fn)]
HasMarker(fn) == \E i \in 1..Len(fn) : fn[i] \in {"-debuginfo", "-debugsource"}
BelongsTo(f, l) ==
    /\ f.top = l.top
    /\ IF l.top = "src"
       THEN Len(f.fn) >= 2 /\ Last(f.fn) = ".rpm" /\ f.fn[Len(f.fn) - 1] = ".src"
       ELSE Last(f.fn) = ".rpm" /\ (l.debug <=> HasMarker(f.fn))

\* lines is the complete list l of the tree: every file that belongs to the
\* list is named by exactly one line, and every line names such a file.
CompleteList(l, lines) ==
    /\ \A f \in pkTree :
          BelongsTo(f, l) =>
              Cardinality({i \in 1..Len(lines) : Resolved(l, lines[i]) = Location(f)}) = 1
    /\ \A i \in 1..Len(lines) :
          \E f \in pkTree : BelongsTo(f, l) /\ Resolved(l, lines[i]) = Location(f)

\* C17: after _update_pkglist_files, every *.src.rpm under src/Packages is in
\* src/pkglist exactly once; every *.rpm under <arch>/Packages with a
\* -debuginfo or -debugsource marker is exactly once in <arch>/debug/pkglist
\* and not in <arch>/pkglist, every other *.rpm exactly once in <arch>/pkglist
\* and not in the debug list; no file is in two lists; every line, resolved
\* against the directory of its list, names its file, the lines of a debug
\* list starting with "..".
C17_PkglistsClassifyEveryFileOnce ==
    pkpc = "done" =>
        /\ \A l \in FinalNames :
              /\ plFiles[l].there
              /\ CompleteList(l, plFiles[l].lines)
              /\ l.debug => \A i \in 1..Len(plFiles[l].lines) :
                                Head(plFiles[l].lines[i].dir) = ".."
        /\ \A f \in pkTree :
              Cardinality({l \in FinalNames :
                  \E i \in 1..Len(plFiles[l].lines) :
                      Resolved(l, plFiles[l].lines[i]) = Location(f)}) <= 1

C17_Witness ==
    /\ pkpc = "done"
    /\ plFiles[Pkglist("x86_64", TRUE)].lines # << >>
    /\ plFiles[Pkglist("x86_64", FALSE)].lines # << >>
    /\ \E f \in pkTree : f.top = "x86_64" /\ f.fn = <<"a", "-debugsource", ".rpm">>

\* C18: at every point of _update_pkglist_files, whatever step failed, each
\* file under a final pkglist name is the list that was there before the call
\* or the complete new list; the lines are written to the ".new" name first.
C18_FinalListsOldOrComplete ==
    \A l \in FinalNames :
        \/ plFiles[l] = plOld[l]
        \/ plFiles[l].there /\ CompleteList(l, plFiles[l].lines)

C18_Witness ==
    /\ pkpc = "failed"
    /\ plOld[Pkglist("src", FALSE)] = OldFile
    /\ plFiles[Pkglist("src", FALSE)] # OldFile
    /\ plFiles[Pkglist("x86_64", FALSE)] = OldFile
    /\ plFiles[NewName(Pkglist("x86_64", FALSE))].lines # << >>
    /\ \E f \in pkTree : f.top = "x86_64" /\ wi <= Len(walk) /\ walk[wi] = f

\* C19: after the compat link was made in a working tree and the rotation
\* published that tree, source/SRPMS of the released tree leads to src of the
\* released tree, not to a path below the working root.
C19_CompatLinkFollowsTheTree ==
    \A p \in Rotators :
        (/\ rpc[p] = "done" /\ rret[p] = "ok"
         /\ IsSnapshot(rpre[p].w)
         /\ links[rpre[p].w[1]] # "none"
         /\ released[rtag[p]] = rpre[p].w) =>
            ReleasedSrpms(rtag[p]) = "released/src"

\* The last call of rsync_with_link and whether it ended the function.
LastTransfer == cLog[Len(cLog)]
EndedByLast == cpc = "done" /\ cRet = "TagFailure"

\* C20: in _pull_condor_repos, exit status 23 of the transfer of the debug
\* subtree or of the SRPMS subtree does not fail the tag; any non-zero status
\* of the transfer of the primary subtree does; any status other than 0 and
\* 23 of the debug or SRPMS transfer does.
C20_NotFoundToleratedForDebugAndSrpms ==
    cLog # << >> =>
        /\ (LastTransfer.kind \in {"debug", "srpms"} /\ LastTransfer.code = RSYNC_NOT_FOUND)
              => ~EndedByLast
        /\ (LastTransfer.kind = "primary" /\ LastTransfer.code # RSYNC_OK)
              => EndedByLast
        /\ (LastTransfer.kind \in {"debug", "srpms"}
              /\ LastTransfer.code \notin {RSYNC_OK, RSYNC_NOT_FOUND})
              => EndedByLast

\* C21: every call of create_mirrorlists that returns, returns a
\* (success, message) tuple.
C21_AlwaysReturnsTuple ==
    \A p \in CmlProcs :
        (cml[p].pc = "returned" /\ cml[p].ret # "FileNotFoundError") =>
            cml[p].ret \in {"(True, msg)", "(False, msg)"}

\* C22: inside run_one_tag a stage is entered only from the stage before it
\* in the fixed order, in a step in which that stage returned without a
\* failure; and whenever a stage of a tag fails, the tag's released and
\* previous trees are the ones the run started with.
PipelineOrder ==
    <<"makedirs", "latest", "rsync", "condor", "pkglist", "createrepo",
      "repoview", "symlink", "rotate">>

Elems(q) == {q[i] : i \in 1..Len(q)}
Ascending(q) == \A i, j \in 1..Len(q) : i < j => q[i] < q[j]

C24_ListsPartitionTheTags ==
    /\ [] /\ Ascending(successful) /\ Ascending(failed)
          /\ Elems(successful) \cap Elems(failed) = {}
          /\ tagidx >= 1 => Elems(successful) \cup Elems(failed) = 1..(tagidx - 1)
          /\ mpc = "report" => Elems(successful) \cup Elems(failed) = Tags
    /\ [][IF mpc = "run" /\ tagidx' # tagidx
          THEN /\ tagidx \in Tags /\ tagidx' = tagidx + 1
               /\ \/ successful' = Append(successful, tagidx) /\ failed' = failed
                  \/ failed' = Append(failed, tagidx) /\ successful' = successful
          ELSE successful' = successful /\ failed' = failed]_vars

C24_Witness ==
    /\ mpc = "report"
    /\ successful # << >> /\ failed # << >>
    /\ Len(successful) + Len(failed) = NTags

\* C25: the link is downloaded at most once, and exactly once before the
\* transfer starts; the URL of the transfer names the directory that was
\* resolved, not 'latest', and every part of the transfer is read from that
\* directory wherever the link points by then.
C25_ResolvedOnceAndPinned ==
    /\ ltResolves <= 1
    /\ ltpc \in {"transfer", "done"} =>
          /\ ltResolves = 1
          /\ ltUrl.dir # LATEST /\ ltUrl.dir = ltDir
    /\ \A i \in 1..Len(ltReads) : ltReads[i] = ltDir

C25_Witness ==
    /\ ltpc = "done"
    /\ Len(ltReads) = MaxParts
    /\ ltUp # ltDir

\* C26: unless a file operation fails for a reason outside the tree, every
\* call of the compatibility-link step succeeds whatever source/SRPMS was
\* before, and afterwards source/SRPMS is a symlink that leads to src.
C26_CompatLinkStepIsTotal ==
    (cspc = "idle" /\ csRets # << >> /\ ~csIoErr) =>
        /\ \A i \in 1..Len(csRets) : csRets[i] = "ok"
        /\ csPath = "symlink"

\* C27: no transfer of _pull_condor_repos is made with deletion, a SRPMS
\* transfer is only made during the first architecture, and a call that
\* returns has made, for n architectures and m mappings, one primary and one
\* debug transfer per architecture and mapping and one SRPMS transfer per
\* mapping.
Made(kind, idx, repo) ==
    {i \in 1..Len(cLog) :
        cLog[i].kind = kind /\ cLog[i].idx = idx /\ cLog[i].repo = repo}

OfKind(kind) == {i \in 1..Len(cLog) : cLog[i].kind = kind}

C27_TransferCounts ==
    /\ \A i \in 1..Len(cLog) : ~cLog[i].delete
    /\ \A i \in OfKind("srpms") : cLog[i].idx = 0
    /\ cRet = "ok" =>
          /\ Cardinality(OfKind("srpms")) = cRepos
          /\ Cardinality(OfKind("primary")) = cArches * cRepos
          /\ Cardinality(OfKind("debug")) = cArches * cRepos
          /\ \A r \in 1..cRepos :
                /\ Cardinality(Made("srpms", 0, r)) = 1
                /\ \A a \in 0..(cArches - 1) :
                      /\ Cardinality(Made("primary", a, r)) = 1
                      /\ Cardinality(Made("debug", a, r)) = 1

C27_Witness ==
    /\ cRet = "ok"
    /\ cArches >= 2 /\ cRepos >= 2
    /\ Cardinality(OfKind("srpms")) = cRepos
    /\ Cardinality(OfKind("primary")) = cArches * cRepos

\* C28: the arguments of rsync_with_link hold rsync's delete option iff
\* delete, its recursive option iff recursive, its dirs option iff delete and
\* not recursive, and its option for hard-linking to the files of an existing
\* directory (--link-dest=DIR) iff link_path is given and is on disk.
HasOption(args, opt) == \E i \in 1..Len(args) : args[i] = opt

C28_OptionsFollowTheArguments ==
    rwArgs # << >> =>
        /\ HasOption(rwArgs, "--delete") <=> rwIn.delete
        /\ HasOption(rwArgs, "--recursive") <=> rwIn.recursive
        /\ HasOption(rwArgs, "--dirs") <=> (rwIn.delete /\ ~rwIn.recursive)
        /\ HasOption(rwArgs, "--link-dest=link_path") <=> rwIn.link = "exists"

\* C29: rsync_exists returns True for status 0, False for status 23, and
\* for every other status ends with a failure that is neither of the two
\* answers nor a silent None.
C29_ThreeOutcomes ==
    rxRet # "none" =>
        /\ rxCode = RSYNC_OK => rxRet = "True"
        /\ rxCode = RSYNC_NOT_FOUND => rxRet = "False"
        /\ rxCode \notin {RSYNC_OK, RSYNC_NOT_FOUND} => rxRet \notin {"True", "False", "None"}

\* C30: update_release_repos is called at most once in a call of
\* update_mirrors_for_tag and only when the file of every architecture has
\* been written; and when the call returns success, it was called once and
\* the released directory holds for every architecture a non-empty file with
\* the hosts this call accepted.
C30_SuccessPublishesThisRunsLists ==
    /\ mirRotations <= 1
    /\ (mirRotations = 1 \/ mirpc = "rotate") =>
          /\ mirArch = Len(MirArches) + 1
          /\ \A a \in 1..Len(MirArches) :
                Len(mirAcc[a]) = Len(MirrorHostnames(mirExtras))
    /\ mirRet = "ok" =>
          /\ mirRotations = 1
          /\ mirRel.there
          /\ \A a \in 1..Len(MirArches) :
                /\ mirRel.files[a] # << >>
                /\ mirRel.files[a] = AcceptedBases(a)
                /\ mirRel.files[a] # mirDisk0.r.files[a]

C30_Witness ==
    /\ mirRet = "ok"
    /\ mirRotations = 1
    /\ mirDisk0.r.there /\ mirPrev = mirDisk0.r
    /\ \A a \in 1..Len(MirArches) : mirRel.files[a] # << >>

\* C31: a call of update_mirrors_for_tag that got as far as the rotation ends
\* by returning a tuple, (True, "") only when the rotation published the
\* working directory, and no exception of the rotation leaves the call.
C31_RotationFailureReturned ==
    (mirpc = "done" /\ mirRotations = 1) =>
        /\ mirRet \in {"ok", "fail"}
        /\ mirRet = "ok" => ~mirWork.there

\* C32: the URL checked for a host and an architecture carries, in the place
\* of the placeholder, the served name that the mapping table gives for the
\* architecture, and the architecture's own name only when the table has no
\* entry for it.
ServedName(map, arch) == IF map[arch] # "none" THEN map[arch] ELSE arch

C32_UrlUsesServedArch ==
    miOut # NoInfo =>
        \A i \in 1..Len(miIn.tmpl.parts) :
            miIn.tmpl.parts[i] = "$ARCH" =>
                miOut.url.parts[i] = ServedName(miIn.map, miIn.arch)

IsPrefix(a, b) ==
    /\ a.abs = b.abs
    /\ Len(a.parts) <= Len(b.parts)
    /\ SubSeq(b.parts, 1, Len(a.parts)) = a.parts

C34_RootsDistinctNotNested ==
    cfgOut.done =>
        \A x, y \in {"dest", "working", "previous"} :
            x # y => ~IsPrefix(cfgOut[x], cfgOut[y])

\* C35: once two overlapping invocations of rotate on the same trees have
\* both finished, released holds one complete snapshot, the released or the
\* working content they were called with: it is never missing and never has
\* another snapshot nested inside it.
C35_OverlapLeavesOneSnapshot ==
    \A t \in RotTags :
        (\A p \in Rotators : rpc[p] = "done" /\ rtag[p] = t) =>
            /\ IsSnapshot(released[t])
            /\ \E p \in Rotators : released[t] \in {rpre[p].r, rpre[p].w}

C37_NoneCallerLeavesLock ==
    \A p \in CmlProcs :
        (cml[p].pc = "flock" /\ cml'[p].pc # "flock" /\ lock'.res[p] = "None") =>
            /\ cml'[p].pc = "returned" /\ cml'[p].ret = "(False, msg)"
            /\ lock'.path = lock.path
            /\ lock'.owner = lock.owner

C37_AcquirerReleases ==
    /\ \A p \in CmlProcs :
          (cml[p].pc = "returned") =>
              /\ lock.fd[p] = 0 /\ lock.pc[p] = "idle"
              /\ \A i \in Inodes : lock.owner[i] # p
    /\ \A p \in CmlProcs :
          (lock.pc[p] = "held") => cml[p].pc = "release"

C37_AcquirerDeletes ==
    \A p \in CmlProcs :
        (cml[p].pc = "unlink" /\ cml'[p].pc # "unlink") =>
            /\ cml'[p].pc = "returned"
            /\ lock'.path = 0

C37_LockHandling ==
    /\ []C37_AcquirerReleases
    /\ [][C37_NoneCallerLeavesLock /\ C37_AcquirerDeletes]_vars

C37_Witness ==
    \E p, q \in CmlProcs :
        /\ cml[p].pc = "returned" /\ cml[p].ret = "(False, msg)" /\ lock.res[p] = "None"
        /\ lock.pc[q] = "held" /\ lock.path # 0 /\ lock.owner[lock.path] = q

\* C38: no step of the rebuilding of the package lists in the working tree
\* changes a list file of the released tree, also when the list files of the
\* working tree are hardlinks of those of the released tree.
C38_ReleasedListsUnchanged == [][relFiles' = relFiles]_vars

C38_Witness ==
    /\ pkpc = "arch_walk"
    /\ plFiles[Pkglist("src", FALSE)] # OldFile
    /\ relFiles[Pkglist("src", FALSE)] = OldFile
    /\ \E a \in PkTops : a # "src" /\ plLink[Pkglist(a, FALSE)]

\* C39: link_static_data leaves every entry of the destination that is not a
\* symlink as it is; when an entry of the static source has the name of such
\* an entry, the call returns (False, message); and without a static root the
\* call returns (True, "") and changes nothing.
C39_NonSymlinksKeptAndReported ==
    /\ \A n \in Names : lsOld[n] = "entry" => lsDst[n] = "entry"
    /\ lsCtl.pc = "returned" =>
          /\ (\E n \in lsIn.static : lsOld[n] = "entry") => lsCtl.ret = "(False, msg)"
          /\ lsIn.root = "none" => (lsCtl.ret = "(True, '')" /\ lsDst = lsOld)

\* C40: after link_latest_release returned success, the latest link of every
\* dver points to an osg-release package of the primary architecture whose
\* release number is the greatest among those with a positive release
\* number; and a call that met a dver without such a package returned
\* (False, message).
OsgReleaseRpms(tree) ==
    {rpm \in tree : rpm.arch = BaseArch /\ rpm.pkg = RELEASE_RPM /\ rpm.rel > 0}

C40_LatestIsNewestOsgRelease ==
    llCtl.pc = "returned" =>
        IF llCtl.ret = "(True, '')"
        THEN \A d \in DOMAIN Dvers :
                /\ llLink[d] \in OsgReleaseRpms(llTree[d])
                /\ \A rpm \in OsgReleaseRpms(llTree[d]) : rpm.rel <= llLink[d].rel
        ELSE \E d \in DOMAIN Dvers : OsgReleaseRpms(llTree[d]) = {}
====
